---- MODULE Spec2Model ----
(***************************************************************************)
(* Model of the command gating of the Pinterest media fetcher bot:         *)
(*   - RateLimitHandler (utils/rate-limit.handler.ts): the per-user fixed  *)
(*     window limiter kept in the rateLimit table, its read-only query and *)
(*     its sweep of expired records;                                       *)
(*   - the command queue the handler builds in its constructor.            *)
(* Time is a discrete clock; one tick stands for one millisecond step of   *)
(* Date.now().  Every await of the source is a point where another call    *)
(* may run, so each handler is cut into one action per await.              *)
(***************************************************************************)
EXTENDS Integers, Naturals, Sequences, FiniteSets, TLC

\* ------------------------------------------------------------------ bounds
MaxTime == 3          \* the clock runs 0..MaxTime
MaxRequests == 2      \* the maxRequests the modelled handler is configured with
WindowMs == 2         \* its windowMs, in ticks
QueueConcurrency == 2 \* its queueConcurrency
Interval == 2         \* the interval of its queue (1000 ms in the source), in ticks
MaxTasks == 5         \* tasks added to the command queue
MaxQueueTime == 4     \* the clock of the queue runs 0..MaxQueueTime
MaxSearchAttempts == 3 \* attempts of one search request that are told apart
MaxItems == 3         \* how many media items a search answers with, at most

\* ------------------------------------------------- constants of the program
MaxRetries == 3             \* downloadMedia: maxRetries
SecondMs == 1000            \* retry-after is in seconds
BackoffStepMs == 2000       \* downloadMedia: (attempt + 1) * 2000 after a 429 without header
BackoffCapMs == 10000       \* downloadMedia: the cap of that wait
TimeoutStepMs == 1000       \* downloadMedia: (attempt + 1) * 1000 after a timeout
SearchDefaultWaitMs == 5000 \* interceptor: the wait after a 429 without header
DeliveryDefaultWaitMs == 2000 \* sendMessage / replyMessage: error.retry_after || 2000
CountMin == 1               \* parseCount, fetchAndPrepareMedia: the least count
CountMax == 5               \* parseCount, fetchAndPrepareMedia: the greatest count

Users == {"u1", "u2"}
Procs == {"p1", "p2"}
RaceUser == "u1"      \* the identity the overlapping calls contend for

VARIABLES
    now,        \* the wall clock (Date.now())
    store,      \* the rateLimit table: a set of rows [userId, count, resetAt]
    pc,         \* per caller: the await it is suspended at
    call,       \* per caller: the locals of the running call
    sweep,      \* the running cleanupExpiredRecords call, or NoSweep
    admits,     \* history: per user, how many calls captured at each instant were admitted
    queue,      \* commandQueue: the tasks waiting, in arrival order
    running,    \* commandQueue: the tasks whose command function is executing
    finished,   \* the tasks whose promise has settled
    submitted,  \* how many tasks were added so far (task ids are 1..submitted)
    intervalCount,  \* commandQueue: the tasks started in the current interval
    intervalEnd,    \* commandQueue: the instant the current interval ends
    startedAt,  \* history: per task, the instant it was started (-1: not started)
    threw,      \* history: the tasks whose command function raised
    promise,    \* per task, the promise executeWithRateLimit returned to its submitter
    disp,       \* per caller: the locals of the running handleCommand / executeCommand
    usage,      \* the commandUsage table: the rows created, in order
    dispatched, \* how many commands were dispatched so far
    dl,         \* the running downloadMedia call
    dv,         \* the running sendMessage / replyMessage call
    sr,         \* the running search request, as the response interceptor sees it
    life,       \* the process: "up", "closing" (shutdown awaits the disconnect), "exited"
    resets,     \* history: per user, the instants at which a window was opened
    hc,         \* per caller: the message handleCommand was given and how far it got
    fm          \* the running fetchAndPrepareMedia call

limVars == <<now, store, pc, call, sweep>>
queueVars == <<queue, running, finished, submitted, intervalCount, intervalEnd, startedAt,
               threw, promise>>
dispVars == <<disp, usage, dispatched>>
retryVars == <<dl, dv, sr>>
vars == <<now, store, pc, call, sweep, admits, queue, running, finished, submitted,
          intervalCount, intervalEnd, startedAt, threw, promise, disp, usage, dispatched,
          dl, dv, sr, life, resets, hc, fm>>
moreVars == <<resets, hc, fm>>

\* ------------------------------------------------------- the rateLimit table
NoRecord == [userId |-> "none", count |-> 0, resetAt |-> 0]

\* prisma.rateLimit.findUnique({ where: { userId } })
FindUnique(st, u) ==
    IF \E r \in st : r.userId = u
    THEN CHOOSE r \in st : r.userId = u
    ELSE NoRecord

\* prisma.rateLimit.create: userId is the unique key, a second row is refused
CreateOk(st, u) == ~ \E r \in st : r.userId = u

Create(st, u, c, ra) == st \cup {[userId |-> u, count |-> c, resetAt |-> ra]}

\* prisma.rateLimit.update({ where: { userId } }): the row must exist
UpdateOk(st, u) == \E r \in st : r.userId = u

\* update with data { count, resetAt }
UpdateCountReset(st, u, c, ra) ==
    {r \in st : r.userId # u} \cup {[userId |-> u, count |-> c, resetAt |-> ra]}

\* update with data { count }: resetAt stays what the table holds
UpdateCount_ExtendsWindow(st, u, c) ==
    {IF r.userId = u THEN [r EXCEPT !.count = c, !.resetAt = @ + 1] ELSE r : r \in st}

UpdateCount(st, u, c) ==
    {IF r.userId = u THEN [r EXCEPT !.count = c] ELSE r : r \in st}

\* deleteMany({ where: { resetAt: { lt: now } } })
DeleteExpired_Inclusive(st, t) == {r \in st : r.resetAt > t}

DeleteExpired(st, t) == {r \in st : ~(r.resetAt < t)}

\* ----------------------------------------------------------- canExecute
\* What the continuation after findUnique does with the row it read.
Decide_OffByOne(rec, t) ==
    IF rec = NoRecord THEN "create"
    ELSE IF rec.resetAt < t THEN "reset"
    ELSE IF rec.count > MaxRequests THEN "deny"
    ELSE "incr"

Decide_ResetLate(rec, t) ==
    IF rec = NoRecord THEN "create"
    ELSE IF rec.resetAt + 1 < t THEN "reset"
    ELSE IF rec.count >= MaxRequests THEN "deny"
    ELSE "incr"

Decide(rec, t) ==
    IF rec = NoRecord THEN "create"
    ELSE IF rec.resetAt < t THEN "reset"
    ELSE IF rec.count >= MaxRequests THEN "deny"
    ELSE "incr"

IdleCall ==
    [top |-> "none", userId |-> "none", now |-> 0, rateLimit |-> NoRecord,
     next |-> "none", result |-> "none", failed |-> FALSE, logged |-> FALSE,
     wrote |-> FALSE, remaining |-> 0, resetAt |-> 0, outcome |-> "none"]

\* const now = new Date(); findUnique is issued
StartCanExecute(p, u, top) ==
    /\ pc[p] = "idle"
    /\ pc' = [pc EXCEPT ![p] = "ce_read"]
    /\ call' = [call EXCEPT ![p] = [IdleCall EXCEPT !.top = top, !.userId = u, !.now = now]]
    /\ UNCHANGED <<now, store, sweep>>

CanExecuteBegin(p, u) == StartCanExecute(p, u, "canExecute")

\* the catch block of canExecute: log, then allow (fail open)
CanExecuteCatch_FailClosed(c) ==
    [c EXCEPT !.result = "false", !.failed = TRUE, !.logged = TRUE]

CanExecuteCatch(c) ==
    [c EXCEPT !.result = "true", !.failed = TRUE, !.logged = TRUE]

\* findUnique answers; the code decides and either returns false or issues its write
CanExecuteRead(p) ==
    /\ pc[p] = "ce_read"
    /\ LET c == call[p]
           rec == FindUnique(store, c.userId)
           d == Decide(rec, c.now)
       IN  IF d = "deny"
           THEN /\ pc' = [pc EXCEPT ![p] = "ce_done"]
                /\ call' = [call EXCEPT ![p] = [c EXCEPT !.rateLimit = rec, !.next = d,
                                                          !.result = "false"]]
           ELSE /\ pc' = [pc EXCEPT ![p] = "ce_write"]
                /\ call' = [call EXCEPT ![p] = [c EXCEPT !.rateLimit = rec, !.next = d]]
    /\ UNCHANGED <<now, store, sweep>>

\* the write answers: create / update(count: 1, resetAt) / update(count + 1)
CanExecuteWrite(p) ==
    /\ pc[p] = "ce_write"
    /\ LET c == call[p]
           u == c.userId
           ok == IF c.next = "create" THEN CreateOk(store, u) ELSE UpdateOk(store, u)
           st == CASE c.next = "create" -> Create(store, u, 1, c.now + WindowMs)
                   [] c.next = "reset" -> UpdateCountReset(store, u, 1, c.now + WindowMs)
                   [] OTHER -> UpdateCount(store, u, c.rateLimit.count + 1)
       IN  IF ok
           THEN /\ store' = st
                /\ call' = [call EXCEPT ![p] = [c EXCEPT !.result = "true",
                                                          !.wrote = (st # store)]]
           ELSE /\ call' = [call EXCEPT ![p] = CanExecuteCatch(c)]
                /\ UNCHANGED store
    /\ pc' = [pc EXCEPT ![p] = "ce_done"]
    /\ UNCHANGED <<now, sweep>>

\* the store is unreachable at the pending read or write of canExecute
CanExecuteStoreFails(p) ==
    /\ pc[p] \in {"ce_read", "ce_write"}
    /\ pc' = [pc EXCEPT ![p] = "ce_done"]
    /\ call' = [call EXCEPT ![p] = CanExecuteCatch(call[p])]
    /\ UNCHANGED <<now, store, sweep>>

\* a direct call of canExecute returns to its caller
CanExecuteReturn(p) ==
    /\ pc[p] = "ce_done"
    /\ call[p].top = "canExecute"
    /\ pc' = [pc EXCEPT ![p] = "idle"]
    /\ call' = [call EXCEPT ![p] = IdleCall]
    /\ UNCHANGED <<now, store, sweep>>

\* read-modify-write of canExecute run without suspension: the decision and the table after it
CanExecuteAtomic(st, u, t) ==
    LET rec == FindUnique(st, u)
        d == Decide(rec, t)
    IN  [allowed |-> d # "deny",
         store |-> CASE d = "create" -> Create(st, u, 1, t + WindowMs)
                     [] d = "reset" -> UpdateCountReset(st, u, 1, t + WindowMs)
                     [] d = "incr" -> UpdateCount(st, u, rec.count + 1)
                     [] OTHER -> st]

\* ------------------------------------------------- getRemainingRequests
\* findUnique is issued
StartGetRemaining(p) ==
    /\ pc' = [pc EXCEPT ![p] = "rem_read"]

GetRemainingBegin(p, u) ==
    /\ pc[p] = "idle"
    /\ StartGetRemaining(p)
    /\ call' = [call EXCEPT ![p] = [IdleCall EXCEPT !.top = "getRemaining", !.userId = u]]
    /\ UNCHANGED <<now, store, sweep>>

Max(a, b) == IF a >= b THEN a ELSE b

\* the value getRemainingRequests returns for the row it read, Date.now() being t
Remaining(rec, t) ==
    IF rec = NoRecord THEN [remaining |-> MaxRequests, resetAt |-> t + WindowMs]
    ELSE IF rec.resetAt < t THEN [remaining |-> MaxRequests, resetAt |-> t + WindowMs]
    ELSE [remaining |-> Max(0, MaxRequests - rec.count), resetAt |-> rec.resetAt]

\* a getRemainingRequests that refreshes an expired row, as canExecute does
GetRemainingRead_Refresh(p) ==
    /\ pc[p] = "rem_read"
    /\ LET c == call[p]
           rec == FindUnique(store, c.userId)
           r == Remaining(rec, now)
       IN  /\ call' = [call EXCEPT ![p] = [c EXCEPT !.remaining = r.remaining,
                                                     !.resetAt = r.resetAt]]
           /\ store' = IF rec # NoRecord /\ rec.resetAt < now
                       THEN UpdateCountReset(store, c.userId, 0, now + WindowMs)
                       ELSE store
    /\ pc' = [pc EXCEPT ![p] = "rem_done"]
    /\ UNCHANGED <<now, sweep>>

\* findUnique answers; the result is computed with the clock read after the await
GetRemainingRead(p) ==
    /\ pc[p] = "rem_read"
    /\ LET c == call[p]
           r == Remaining(FindUnique(store, c.userId), now)
       IN  call' = [call EXCEPT ![p] = [c EXCEPT !.remaining = r.remaining,
                                                  !.resetAt = r.resetAt]]
    /\ pc' = [pc EXCEPT ![p] = "rem_done"]
    /\ UNCHANGED <<now, store, sweep>>

\* the store is unreachable: the catch block logs and answers a full quota
GetRemainingStoreFails(p) ==
    /\ pc[p] = "rem_read"
    /\ call' = [call EXCEPT ![p] = [call[p] EXCEPT !.remaining = MaxRequests,
                                                   !.resetAt = now + WindowMs,
                                                   !.failed = TRUE, !.logged = TRUE]]
    /\ pc' = [pc EXCEPT ![p] = "rem_done"]
    /\ UNCHANGED <<now, store, sweep>>

GetRemainingReturn(p) ==
    /\ pc[p] = "rem_done"
    /\ call[p].top = "getRemaining"
    /\ pc' = [pc EXCEPT ![p] = "idle"]
    /\ call' = [call EXCEPT ![p] = IdleCall]
    /\ UNCHANGED <<now, store, sweep>>

\* ------------------------------------------------- executeWithRateLimit
ExecuteBegin(p, u) == StartCanExecute(p, u, "execute")

\* canExecute has returned: a denial asks getRemainingRequests, an admission queues the command
ExecuteChecked(p) ==
    /\ pc[p] = "ce_done"
    /\ call[p].top = "execute"
    /\ IF call[p].result = "false"
       THEN /\ StartGetRemaining(p)
            /\ UNCHANGED call
       ELSE /\ pc' = [pc EXCEPT ![p] = "ex_done"]
            /\ call' = [call EXCEPT ![p].outcome = "queued"]
    /\ UNCHANGED <<now, store, sweep>>

\* throw new RateLimitError(..., remaining.resetAt)
ExecuteThrow(p) ==
    /\ pc[p] = "rem_done"
    /\ call[p].top = "execute"
    /\ pc' = [pc EXCEPT ![p] = "ex_done"]
    /\ call' = [call EXCEPT ![p].outcome = "RateLimitError"]
    /\ UNCHANGED <<now, store, sweep>>

ExecuteReturn(p) ==
    /\ pc[p] = "ex_done"
    /\ pc' = [pc EXCEPT ![p] = "idle"]
    /\ call' = [call EXCEPT ![p] = IdleCall]
    /\ UNCHANGED <<now, store, sweep>>

\* ------------------------------------------------ cleanupExpiredRecords
NoSweep == [running |-> FALSE, now |-> 0]

\* const now = new Date(); deleteMany is issued
CleanupBegin ==
    /\ ~sweep.running
    /\ sweep' = [running |-> TRUE, now |-> now]
    /\ UNCHANGED <<now, store, pc, call>>

\* deleteMany answers
CleanupDelete ==
    /\ sweep.running
    /\ store' = DeleteExpired(store, sweep.now)
    /\ sweep' = NoSweep
    /\ UNCHANGED <<now, pc, call>>

\* the store is unreachable: the catch block logs, nothing is deleted
CleanupStoreFails ==
    /\ sweep.running
    /\ sweep' = NoSweep
    /\ UNCHANGED <<now, store, pc, call>>

\* ------------------------------------------------------------------ clock
Tick ==
    /\ now < MaxTime
    /\ now' = now + 1
    /\ UNCHANGED <<store, pc, call, sweep>>

\* ------------------------------------------------------ the command queue
\* new PQueue({ concurrency, interval: 1000, intervalCap }) in the constructor
Concurrency_Omitted == MaxTasks + 1

Concurrency == QueueConcurrency

IntervalCap_Omitted == MaxTasks + 1

IntervalCap == QueueConcurrency

Tasks == 1..MaxTasks

QueueState == [queue |-> queue, running |-> running,
               intervalCount |-> intervalCount, startedAt |-> startedAt]

\* start the head of the queue if a concurrency slot and the interval cap allow it
TryToStartAnother(q, t) ==
    IF /\ Len(q.queue) > 0
       /\ q.intervalCount < IntervalCap
       /\ Cardinality(q.running) < Concurrency
    THEN [queue |-> Tail(q.queue),
          running |-> q.running \cup {Head(q.queue)},
          intervalCount |-> q.intervalCount + 1,
          startedAt |-> [q.startedAt EXCEPT ![Head(q.queue)] = t]]
    ELSE q

RECURSIVE ProcessQueue(_, _)
ProcessQueue(q, t) ==
    LET q2 == TryToStartAnother(q, t)
    IN  IF q2 = q THEN q ELSE ProcessQueue(q2, t)

SetQueue(q) ==
    /\ queue' = q.queue
    /\ running' = q.running
    /\ intervalCount' = q.intervalCount
    /\ startedAt' = q.startedAt

\* commandQueue.add(fn) is called without options, so every task has the default
\* priority; the queue orders its waiting tasks by priority, then by arrival
AddPriority_ByArrival(t) == t

AddPriority(t) == 0

RECURSIVE Enqueue(_, _)
Enqueue(q, t) ==
    IF q = <<>> THEN <<t>>
    ELSE IF AddPriority(Head(q)) >= AddPriority(t)
         THEN <<Head(q)>> \o Enqueue(Tail(q), t)
         ELSE <<t>> \o q

\* the function handed to add: try { return await commandFn() } catch (error) { throw error }
WrappedFn_Swallows(o) == "returned"

WrappedFn(o) == IF o = "threw" THEN "threw" ELSE "returned"

\* return this.commandQueue.add(...): the submitter holds the promise of add, which
\* settles as the wrapped function does
SubmitterPromise_NotReturned(o) == "pending"

SubmitterPromise(o) == IF o = "threw" THEN "rejected" ELSE "resolved"

\* commandQueue.add(fn): the task joins the queue and is started at once if allowed
QueueAdd ==
    /\ submitted < MaxTasks
    /\ now < intervalEnd
    /\ submitted' = submitted + 1
    /\ promise' = [promise EXCEPT ![submitted + 1] = "pending"]
    /\ SetQueue(TryToStartAnother([QueueState EXCEPT !.queue = Enqueue(queue, submitted + 1)], now))
    /\ UNCHANGED <<now, finished, intervalEnd, threw>>

\* a running command function settles with outcome o ("returned" or "threw"): its
\* slot is freed, the submitter's promise settles and the next task may start
Settle(t, o) ==
    /\ t \in running
    /\ now < intervalEnd
    /\ finished' = finished \cup {t}
    /\ threw' = IF o = "threw" THEN threw \cup {t} ELSE threw
    /\ promise' = [promise EXCEPT ![t] = SubmitterPromise(WrappedFn(o))]
    /\ SetQueue(TryToStartAnother([QueueState EXCEPT !.running = running \ {t}], now))
    /\ UNCHANGED <<now, submitted, intervalEnd>>

QueueFinish(t) == Settle(t, "returned")

QueueFail(t) == Settle(t, "threw")

\* the interval timer fires: the count of starts is cleared and the queue is processed
OnInterval ==
    /\ now = intervalEnd
    /\ intervalEnd' = intervalEnd + Interval
    /\ SetQueue(ProcessQueue([QueueState EXCEPT !.intervalCount = 0], now))
    /\ UNCHANGED <<now, finished, submitted, threw, promise>>

QueueTick ==
    /\ now < MaxQueueTime
    /\ now < intervalEnd
    /\ now' = now + 1
    /\ UNCHANGED queueVars

\* Instants after MaxQueueTime are not told apart: the clock stays at MaxQueueTime
\* while the interval timer keeps firing.
OnIntervalLate ==
    /\ now = MaxQueueTime
    /\ now < intervalEnd
    /\ SetQueue(ProcessQueue([QueueState EXCEPT !.intervalCount = 0], now))
    /\ UNCHANGED <<now, finished, submitted, intervalEnd, threw, promise>>

\* ------------------------------------- executeCommand and handleCommand
\* The errors a command handler raises, as they reach executeCommand: a rejected
\* input, and the throttling responses left after the retries of the search
\* interceptor, of replyMessage and of downloadMedia (throttled: the failure is a
\* downstream throttling response).
NoError == [type |-> "none", message |-> "none", throttled |-> FALSE, resetAt |-> 0]

HandlerErrors ==
    {[type |-> "ValidationError", message |-> "Query cannot be empty",
      throttled |-> FALSE, resetAt |-> 0],
     [type |-> "PinterestAPIError", message |-> "Too many requests",
      throttled |-> TRUE, resetAt |-> 0],
     [type |-> "DiscordAPIError", message |-> "You are being rate limited",
      throttled |-> TRUE, resetAt |-> 0],
     [type |-> "MediaDownloadError", message |-> "Failed to download any media items",
      throttled |-> TRUE, resetAt |-> 0]}

\* new RateLimitError(message, remaining.resetAt)
RateLimitError(resetAt) ==
    [type |-> "RateLimitError", message |-> "Rate limit exceeded", throttled |-> FALSE,
     resetAt |-> resetAt]

DatabaseError ==
    [type |-> "Error", message |-> "Database unreachable", throttled |-> FALSE, resetAt |-> 0]

NoResult == [success |-> FALSE, error |-> "none"]

IdleDispatch ==
    [at |-> "idle", cmd |-> "none", admitted |-> "none", task |-> 0, error |-> NoError,
     success |-> FALSE, result |-> NoResult, writes |-> 0, logFailed |-> FALSE]

CommandNames == {"known", "unknown"}

\* this.commands.get(name.toLowerCase()): is the name a registered command or alias
GetCommand(k) == k = "known"

\* the catch block of executeCommand: a RateLimitError is raised again as it is,
\* any other error becomes the message of a failed result, which is then logged
ExecuteCommandCatch_NoRethrow(d, err) ==
    [d EXCEPT !.at = "log", !.error = err, !.success = FALSE,
              !.result = [success |-> FALSE,
                          error |-> IF err.type = "RateLimitError"
                                    THEN "Rate limit exceeded" ELSE err.message]]

ExecuteCommandCatch_RethrowsAll(d, err) == [d EXCEPT !.at = "raised", !.error = err]

ExecuteCommandCatch(d, err) ==
    IF err.type = "RateLimitError"
    THEN [d EXCEPT !.at = "raised", !.error = err]
    ELSE [d EXCEPT !.at = "log", !.error = err, !.success = FALSE,
                   !.result = [success |-> FALSE, error |-> err.message]]

\* neither branch of executeCommand writes to the rateLimit table after the handler
QuotaAfterHandler_Refund(st, u, o) ==
    IF o = "rejected" /\ FindUnique(st, u) # NoRecord /\ FindUnique(st, u).count > 0
    THEN UpdateCount(st, u, FindUnique(st, u).count - 1)
    ELSE st

QuotaAfterHandler(st, u, o) == st

\* the catch block of logCommandUsage: log, do not raise
LogCommandUsageCatch_Rethrows(d) ==
    [d EXCEPT !.logFailed = TRUE, !.at = "raised", !.error = DatabaseError]

LogCommandUsageCatch(d) == [d EXCEPT !.logFailed = TRUE, !.at = "returned"]

\* executeCommand looks the command up first and, if it is known, enters
\* executeWithRateLimit, whose canExecute captures now and issues findUnique
ExecuteCommandBegin_AdmitsFirst(p, u, k) ==
    /\ disp[p].at = "idle"
    /\ dispatched < Cardinality(Procs)
    /\ dispatched' = dispatched + 1
    /\ StartCanExecute(p, u, "dispatch")
    /\ disp' = [disp EXCEPT ![p] = [IdleDispatch EXCEPT !.at = "execute", !.cmd = k]]
    /\ UNCHANGED usage
    /\ UNCHANGED queueVars

ExecuteCommandBegin(p, u, k) ==
    /\ disp[p].at = "idle"
    /\ dispatched < Cardinality(Procs)
    /\ dispatched' = dispatched + 1
    /\ IF GetCommand(k)
       THEN /\ StartCanExecute(p, u, "dispatch")
            /\ disp' = [disp EXCEPT ![p] = [IdleDispatch EXCEPT !.at = "execute", !.cmd = k]]
       ELSE /\ pc[p] = "idle"
            /\ disp' = [disp EXCEPT ![p] =
                   [IdleDispatch EXCEPT !.at = "returned", !.cmd = k,
                        !.result = [success |-> FALSE, error |-> "Unknown command"]]]
            /\ UNCHANGED <<now, store, pc, call, sweep>>
    /\ UNCHANGED usage
    /\ UNCHANGED queueVars

\* executeWithRateLimit, canExecute returned false: getRemainingRequests is asked
ExecuteDenied(p) ==
    /\ pc[p] = "ce_done"
    /\ call[p].top = "dispatch"
    /\ disp[p].at = "execute"
    /\ call[p].result = "false"
    /\ StartGetRemaining(p)
    /\ disp' = [disp EXCEPT ![p].admitted = "false"]
    /\ UNCHANGED <<now, store, call, sweep, usage, dispatched>>
    /\ UNCHANGED queueVars

\* throw new RateLimitError(..., remaining.resetAt), caught by executeCommand
ExecuteRaise(p) ==
    /\ pc[p] = "rem_done"
    /\ call[p].top = "dispatch"
    /\ disp[p].at = "execute"
    /\ pc' = [pc EXCEPT ![p] = "idle"]
    /\ disp' = [disp EXCEPT ![p] = ExecuteCommandCatch(disp[p], RateLimitError(call[p].resetAt))]
    /\ UNCHANGED <<now, store, call, sweep, usage, dispatched>>
    /\ UNCHANGED queueVars

\* executeWithRateLimit, canExecute returned true: the command is added to the queue
ExecuteEnqueue(p) ==
    /\ pc[p] = "ce_done"
    /\ call[p].top = "dispatch"
    /\ disp[p].at = "execute"
    /\ call[p].result = "true"
    /\ QueueAdd
    /\ pc' = [pc EXCEPT ![p] = "ex_wait"]
    /\ disp' = [disp EXCEPT ![p] = [disp[p] EXCEPT !.admitted = "true", !.at = "queued",
                                                   !.task = submitted + 1]]
    /\ UNCHANGED <<store, call, sweep, usage, dispatched>>

\* command.execute(message, args) returns
HandlerReturns(t) ==
    /\ QueueFinish(t)
    /\ UNCHANGED <<store, pc, call, sweep, disp, usage, dispatched>>

\* command.execute(message, args) raises e: the promise its dispatch awaits rejects with e
HandlerRaises(t, e) ==
    /\ QueueFail(t)
    /\ disp' = [p \in Procs |->
                   IF disp[p].at = "queued" /\ disp[p].task = t
                   THEN [disp[p] EXCEPT !.error = e] ELSE disp[p]]
    /\ UNCHANGED <<store, pc, call, sweep, usage, dispatched>>

\* the awaited promise has settled: executeCommand goes on to log the success, or
\* enters its catch block with the error
ExecuteCommandSettled(p) ==
    /\ pc[p] = "ex_wait"
    /\ disp[p].at = "queued"
    /\ promise[disp[p].task] \in {"resolved", "rejected"}
    /\ pc' = [pc EXCEPT ![p] = "idle"]
    /\ disp' = [disp EXCEPT ![p] =
           IF promise[disp[p].task] = "resolved"
           THEN [disp[p] EXCEPT !.at = "log", !.success = TRUE,
                                !.result = [success |-> TRUE, error |-> "none"]]
           ELSE ExecuteCommandCatch(disp[p], disp[p].error)]
    /\ store' = QuotaAfterHandler(store, call[p].userId, promise[disp[p].task])
    /\ UNCHANGED <<now, call, sweep, usage, dispatched>>
    /\ UNCHANGED queueVars

\* logCommandUsage: prisma.commandUsage.create succeeds; executeCommand returns its result
LogCommandUsageWrite(p) ==
    /\ disp[p].at = "log"
    /\ usage' = Append(usage, [userId |-> call[p].userId, success |-> disp[p].success,
                               error |-> disp[p].result.error, task |-> disp[p].task])
    /\ disp' = [disp EXCEPT ![p] = [disp[p] EXCEPT !.at = "returned", !.writes = @ + 1]]
    /\ UNCHANGED <<now, store, pc, call, sweep, dispatched>>
    /\ UNCHANGED queueVars

\* logCommandUsage: the store is unreachable at the create
LogCommandUsageStoreFails(p) ==
    /\ disp[p].at = "log"
    /\ disp' = [disp EXCEPT ![p] = LogCommandUsageCatch(disp[p])]
    /\ UNCHANGED <<now, store, pc, call, sweep, usage, dispatched>>
    /\ UNCHANGED queueVars

\* handleCommand, executeCommand returned a result: an unknown command is answered
\* with a reply, and the dispatch is over
HandleCommandResult(p) ==
    /\ disp[p].at = "returned"
    /\ pc[p] = "idle"
    /\ disp' = [disp EXCEPT ![p] = IdleDispatch]
    /\ call' = [call EXCEPT ![p] = IdleCall]
    /\ UNCHANGED <<now, store, pc, sweep, usage, dispatched>>
    /\ UNCHANGED queueVars

\* handleCommand, catch of a RateLimitError: getRemainingRequests(userId) is asked
HandleCommandDenied(p) ==
    /\ disp[p].at = "raised"
    /\ disp[p].error.type = "RateLimitError"
    /\ pc[p] = "idle"
    /\ StartGetRemaining(p)
    /\ disp' = [disp EXCEPT ![p].at = "remaining"]
    /\ UNCHANGED <<now, store, call, sweep, usage, dispatched>>
    /\ UNCHANGED queueVars

\* handleCommand replies with the rate limit embed, and the dispatch is over
HandleCommandReplied(p) ==
    /\ pc[p] = "rem_done"
    /\ call[p].top = "dispatch"
    /\ disp[p].at = "remaining"
    /\ pc' = [pc EXCEPT ![p] = "idle"]
    /\ disp' = [disp EXCEPT ![p] = IdleDispatch]
    /\ call' = [call EXCEPT ![p] = IdleCall]
    /\ UNCHANGED <<now, store, sweep, usage, dispatched>>
    /\ UNCHANGED queueVars

\* ---------------------------------------------------------- downloadMedia
\* The retry-after header of a 429 response: absent, or a number of seconds.
RetryAfterHeaders == {"none", "0", "1", "2"}

\* parseInt(String(retryAfter), 10)
ParseInt(h) == CASE h = "0" -> 0 [] h = "1" -> 1 [] h = "2" -> 2

Min(a, b) == IF a <= b THEN a ELSE b

\* What axios.get answers on one attempt: a buffer, an empty body, a 429 with or
\* without retry-after, another HTTP error status, a connection timeout
\* (ECONNABORTED / ETIMEDOUT), or another network error without a response.
DownloadResponses ==
    {[kind |-> k, header |-> "none"] : k \in {"ok", "empty", "http", "timeout", "network"}}
        \cup {[kind |-> "429", header |-> h] : h \in RetryAfterHeaders}

NoOutcome == [type |-> "none", message |-> "none"]

IdleDownload ==
    [pc |-> "idle", attempt |-> 0, responses |-> <<>>, waits |-> <<>>, pending |-> 0,
     outcome |-> NoOutcome]

\* the wait after a 429: retry-after in seconds, or a backoff growing with the attempt
DownloadWait429(h, attempt) ==
    IF h # "none" THEN ParseInt(h) * SecondMs
    ELSE Min((attempt + 1) * BackoffStepMs, BackoffCapMs)

\* the wait after a connection timeout that is not the last attempt
DownloadWaitTimeout_Backoff(attempt) == Min((attempt + 1) * BackoffStepMs, BackoffCapMs)

DownloadWaitTimeout(attempt) == (attempt + 1) * TimeoutStepMs

\* What the catch block of an attempt does with the failure r: "wait" and go on,
\* "throw" a MediaDownloadError, or fall through to the next attempt ("next").
DownloadCatch_RetriesHttp(r, attempt) ==
    CASE r.kind = "429" -> "wait"
      [] r.kind = "http" -> "next"
      [] r.kind = "timeout" -> IF attempt = MaxRetries - 1 THEN "throw" ELSE "wait"
      [] r.kind = "empty" -> "throw"
      [] OTHER -> "next"

DownloadCatch(r, attempt) ==
    CASE r.kind = "429" -> "wait"
      [] r.kind = "http" -> "throw"
      [] r.kind = "timeout" -> IF attempt = MaxRetries - 1 THEN "throw" ELSE "wait"
      [] r.kind = "empty" -> "throw"
      [] OTHER -> "next"

\* the message of the MediaDownloadError thrown for the failure r
DownloadMessage(r) ==
    CASE r.kind = "http" -> "HTTP status"
      [] r.kind = "timeout" -> "Request timeout"
      [] OTHER -> "Empty response from server"

\* attempt++ and the loop test; after the loop: throw new MediaDownloadError('Failed after ...')
DownloadContinue_OneMore(d) ==
    IF d.attempt + 1 <= MaxRetries
    THEN [d EXCEPT !.attempt = @ + 1, !.pc = "request", !.pending = 0]
    ELSE [d EXCEPT !.attempt = @ + 1, !.pc = "done", !.pending = 0,
                   !.outcome = [type |-> "MediaDownloadError",
                                message |-> "Failed after attempts"]]

DownloadContinue(d) ==
    IF d.attempt + 1 < MaxRetries
    THEN [d EXCEPT !.attempt = @ + 1, !.pc = "request", !.pending = 0]
    ELSE [d EXCEPT !.attempt = @ + 1, !.pc = "done", !.pending = 0,
                   !.outcome = [type |-> "MediaDownloadError",
                                message |-> "Failed after attempts"]]

\* downloadMedia(url): a missing url is refused, else the first attempt is issued
DownloadBegin(valid) ==
    /\ dl.pc = "idle"
    /\ dl' = IF valid
             THEN [IdleDownload EXCEPT !.pc = "request"]
             ELSE [IdleDownload EXCEPT !.pc = "done",
                       !.outcome = [type |-> "ValidationError",
                                    message |-> "Invalid URL provided"]]
    /\ UNCHANGED <<dv, sr>>

\* axios.get settles with r
DownloadResponse(r) ==
    /\ dl.pc = "request"
    /\ LET d == [dl EXCEPT !.responses = Append(@, r)]
           c == DownloadCatch(r, dl.attempt)
       IN  dl' = CASE r.kind = "ok" ->
                        [d EXCEPT !.pc = "done",
                                  !.outcome = [type |-> "Buffer", message |-> "none"]]
                   [] r.kind # "ok" /\ c = "wait" ->
                        [d EXCEPT !.pc = "wait",
                                  !.pending = IF r.kind = "429"
                                              THEN DownloadWait429(r.header, dl.attempt)
                                              ELSE DownloadWaitTimeout(dl.attempt)]
                   [] r.kind # "ok" /\ c = "throw" ->
                        [d EXCEPT !.pc = "done",
                                  !.outcome = [type |-> "MediaDownloadError",
                                               message |-> DownloadMessage(r)]]
                   [] OTHER -> DownloadContinue(d)
    /\ UNCHANGED <<dv, sr>>

\* the timer of the wait fires: continue
DownloadWaited ==
    /\ dl.pc = "wait"
    /\ dl' = DownloadContinue([dl EXCEPT !.waits = Append(@, dl.pending)])
    /\ UNCHANGED <<dv, sr>>

\* the caller has the buffer or the error
DownloadReturn ==
    /\ dl.pc = "done"
    /\ dl' = IdleDownload
    /\ UNCHANGED <<dv, sr>>

\* ------------------------------------------- sendMessage and replyMessage
\* What channel.send / message.reply settles with: the message, or a Discord
\* error with its code, HTTP status and retry_after (0: absent, which
\* `error.retry_after || 2000` treats like 0).
Delivered == [code |-> 0, status |-> 200, retry_after |-> 0]

DeliveryErrors ==
    {[code |-> 0, status |-> 429, retry_after |-> h] : h \in {0, 500, 3000}}
        \cup {[code |-> 50035, status |-> 400, retry_after |-> h] : h \in {0, 500}}
        \cup {[code |-> 50013, status |-> 403, retry_after |-> 0],
              [code |-> 10008, status |-> 404, retry_after |-> 0],
              [code |-> 0, status |-> 500, retry_after |-> 0]}

DeliveryResponses == {Delivered} \cup DeliveryErrors

NoDelivery == [code |-> 0, status |-> 0, retry_after |-> 0]

IdleDelivery ==
    [pc |-> "idle", kind |-> "none", attempt |-> 0, responses |-> <<>>, waits |-> <<>>,
     pending |-> 0, outcome |-> NoDelivery]

\* error.code === 50035 || error.status === 429
IsRateLimited_StatusOnly(e) == e.status = 429

IsRateLimited(e) == e.code = 50035 \/ e.status = 429

\* error.retry_after || 2000
DeliveryWait(e) == IF e.retry_after # 0 THEN e.retry_after ELSE DeliveryDefaultWaitMs

\* sendMessage(channel, options) / replyMessage(message, options): the first attempt
DeliverBegin(kind) ==
    /\ dv.pc = "idle"
    /\ dv' = [IdleDelivery EXCEPT !.pc = "request", !.kind = kind, !.attempt = 1]
    /\ UNCHANGED <<dl, sr>>

\* the attempt settles with r: the first one is retried once after a wait when
\* the error is a rate limit; everything else is what the caller gets
DeliverResponse(r) ==
    /\ dv.pc = "request"
    /\ LET d == [dv EXCEPT !.responses = Append(@, r)]
       IN  dv' = IF dv.attempt = 1 /\ r # Delivered /\ IsRateLimited(r)
                 THEN [d EXCEPT !.pc = "wait", !.pending = DeliveryWait(r)]
                 ELSE [d EXCEPT !.pc = "done", !.outcome = r]
    /\ UNCHANGED <<dl, sr>>

\* the wait is over: return channel.send(options) / message.reply(options)
DeliverWaited ==
    /\ dv.pc = "wait"
    /\ dv' = [dv EXCEPT !.pc = "request", !.attempt = @ + 1,
                        !.waits = Append(@, dv.pending), !.pending = 0]
    /\ UNCHANGED <<dl, sr>>

DeliverReturn ==
    /\ dv.pc = "done"
    /\ dv' = IdleDelivery
    /\ UNCHANGED <<dl, sr>>

\* ------------------------------- searchMedia and the response interceptor
\* What the search API answers: results, a 429 with or without retry-after,
\* another error status, or no response at all.
SearchResponses ==
    {[kind |-> k, header |-> "none"] : k \in {"ok", "http", "network"}}
        \cup {[kind |-> "429", header |-> h] : h \in RetryAfterHeaders}

\* attempts saturates at MaxSearchAttempts and waits keeps the latest
\* MaxSearchAttempts waits: the interceptor itself counts nothing.
NoResponse == [kind |-> "none", header |-> "none"]

IdleSearch ==
    [pc |-> "idle", attempts |-> 0, waits |-> <<>>, pending |-> 0, last |-> NoResponse,
     outcome |-> NoOutcome]

\* retryAfter ? parseInt(retryAfter, 10) * 1000 : 5000
SearchWait_Seconds(h) == IF h # "none" THEN ParseInt(h) ELSE SearchDefaultWaitMs

SearchWait(h) == IF h # "none" THEN ParseInt(h) * SecondMs ELSE SearchDefaultWaitMs

\* the latest MaxSearchAttempts entries of w
Latest(w) == IF Len(w) > MaxSearchAttempts THEN Tail(w) ELSE w

\* whether the interceptor retries the failure r
SearchRetries(r) == r.kind = "429"

\* searchMedia(query): the request is issued
SearchBegin ==
    /\ sr.pc = "idle"
    /\ sr' = [IdleSearch EXCEPT !.pc = "request", !.attempts = 1]
    /\ UNCHANGED <<dl, dv>>

\* the request settles with r and, on an error, the interceptor runs
SearchResponse(r) ==
    /\ sr.pc = "request"
    /\ sr' = CASE r.kind = "ok" ->
                    [sr EXCEPT !.pc = "done", !.last = r,
                               !.outcome = [type |-> "Results", message |-> "none"]]
               [] r.kind # "ok" /\ SearchRetries(r) ->
                    [sr EXCEPT !.pc = "wait", !.last = r,
                               !.pending = SearchWait(r.header)]
               [] r.kind = "http" /\ ~SearchRetries(r) ->
                    [sr EXCEPT !.pc = "done", !.last = r,
                               !.outcome = [type |-> "PinterestAPIError",
                                            message |-> "Pinterest API error"]]
               [] OTHER ->
                    [sr EXCEPT !.pc = "done", !.last = r,
                               !.outcome = [type |-> "PinterestAPIError",
                                            message |-> "Failed to search Pinterest"]]
    /\ UNCHANGED <<dl, dv>>

\* the wait is over: return this.apiClient.request(error.config), whose
\* failure runs the same interceptor again
SearchWaited ==
    /\ sr.pc = "wait"
    /\ sr' = [sr EXCEPT !.pc = "request",
                        !.attempts = Min(@ + 1, MaxSearchAttempts),
                        !.waits = Latest(Append(@, sr.pending)),
                        !.pending = 0]
    /\ UNCHANGED <<dl, dv>>

SearchReturn ==
    /\ sr.pc = "done"
    /\ sr' = IdleSearch
    /\ UNCHANGED <<dl, dv>>

\* ---------------------------------------------------------------- shutdown
\* SIGINT / SIGTERM: shutdown() destroys the client and disconnects the store
ShutdownBegin ==
    /\ life = "up"
    /\ life' = "closing"

\* process.exit(0), or process.exit(1) from the catch
ShutdownExit ==
    /\ life = "closing"
    /\ life' = "exited"

\* ------------------------------------------------- handleCommand, messages
\* An inbound message: whether a bot wrote it, whether its content starts with
\* the prefix, and the words left of slice(prefix.length).trim().split(/ +/)
\* (none when nothing but blanks follows the prefix: the one word is then empty).
Messages ==
    {[bot |-> b, prefixed |-> x, words |-> w] :
        b \in BOOLEAN, x \in BOOLEAN, w \in {<<>>, <<"PFP">>, <<"nope">>}}

NoMessage == [bot |-> FALSE, prefixed |-> FALSE, words |-> <<>>]

IdleHandle == [at |-> "idle", msg |-> NoMessage, replies |-> 0, error |-> "none"]

\* String.prototype.toLowerCase
ToLowerCase(w) == IF w = "PFP" THEN "pfp" ELSE w

\* the three early returns of handleCommand
Ignored_BotsAnswered(m) == ~m.prefixed \/ m.words = <<>>

Ignored(m) == m.bot \/ ~m.prefixed \/ m.words = <<>>

\* args.shift()?.toLowerCase(), looked up in the registry
CommandOf(m) == IF ToLowerCase(Head(m.words)) = "pfp" THEN "known" ELSE "unknown"

\* handleCommand(message): an ignored message returns at once, any other one
\* enters executeCommand
HandleCommand(p, m) ==
    /\ hc[p].at = "idle"
    /\ disp[p].at = "idle"
    /\ IF Ignored(m)
       THEN /\ hc' = [hc EXCEPT ![p] = [IdleHandle EXCEPT !.at = "done", !.msg = m]]
            /\ UNCHANGED <<limVars, dispVars, queueVars>>
       ELSE /\ hc' = [hc EXCEPT ![p] = [IdleHandle EXCEPT !.at = "dispatch", !.msg = m]]
            /\ ExecuteCommandBegin(p, RaceUser, CommandOf(m))

\* executeCommand returned its result: a failed result of a name that is not
\* registered is answered with replyMessage, any other result with nothing
HandleCommandOutcome(p) ==
    /\ hc[p].at = "dispatch"
    /\ disp[p].at = "returned"
    /\ IF ~disp[p].result.success /\ disp[p].result.error # "none"
          /\ ~GetCommand(CommandOf(hc[p].msg))
       THEN /\ hc' = [hc EXCEPT ![p].at = "reply"]
            /\ UNCHANGED <<limVars, dispVars, queueVars>>
       ELSE /\ hc' = [hc EXCEPT ![p].at = "done"]
            /\ HandleCommandResult(p)

\* replyMessage of the unknown-command embed settles: delivered, or it raises
\* and the catch of handleCommand takes its else branch
HandleCommandReplySettles(p, delivered) ==
    /\ hc[p].at = "reply"
    /\ IF delivered
       THEN /\ hc' = [hc EXCEPT ![p].at = "done", ![p].replies = @ + 1]
            /\ HandleCommandResult(p)
       ELSE /\ hc' = [hc EXCEPT ![p].at = "generic", ![p].error = "DiscordAPIError"]
            /\ UNCHANGED <<limVars, dispVars, queueVars>>

\* the else branch: logger.error is given guildId, which handleCommand never
\* declares, so evaluating the argument raises and handleCommand rejects
HandleCommandGeneric(p) ==
    /\ hc[p].at = "generic"
    /\ hc' = [hc EXCEPT ![p].at = "escaped", ![p].error = "ReferenceError"]
    /\ HandleCommandResult(p)

\* the rate limit embed is delivered
HandleCommandRateLimitReplied(p) ==
    /\ hc[p].at = "dispatch"
    /\ hc' = [hc EXCEPT ![p].at = "done", ![p].replies = @ + 1]
    /\ HandleCommandReplied(p)

\* the promise of handleCommand has settled
HandleCommandDone(p) ==
    /\ hc[p].at \in {"done", "escaped"}
    /\ hc' = [hc EXCEPT ![p] = IdleHandle]
    /\ UNCHANGED <<limVars, dispVars, queueVars>>

\* --------------------------------------------------- fetchAndPrepareMedia
\* The words after the command name, each a sequence of characters.
Tokens == {<<"c">>, <<"0">>, <<"3">>, <<"1", "2">>, <<"-", "2">>, <<"2", "x">>}

ArgLists == {<<>>} \cup {<<a>> : a \in Tokens} \cup {<<a, b>> : a \in Tokens, b \in Tokens}

DigitValue(c) ==
    CASE c = "0" -> 0 [] c = "1" -> 1 [] c = "2" -> 2 [] c = "3" -> 3 [] c = "4" -> 4
      [] c = "5" -> 5 [] c = "6" -> 6 [] c = "7" -> 7 [] c = "8" -> 8 [] c = "9" -> 9

\* /^\d+$/.test(arg)
AllDigits(tok) ==
    /\ Len(tok) > 0
    /\ \A i \in 1..Len(tok) : tok[i] \in {"0", "1", "2", "3", "4", "5", "6", "7", "8", "9"}

\* parseInt(countArg, 10) of a word of digits
RECURSIVE ParseDigits(_)
ParseDigits(tok) ==
    IF tok = <<>> THEN 0
    ELSE 10 * ParseDigits(SubSeq(tok, 1, Len(tok) - 1)) + DigitValue(tok[Len(tok)])

\* args.find((arg) => /^\d+$/.test(arg)): the position of the first such word, or 0
FindCountArg(args) ==
    IF \E i \in 1..Len(args) : AllDigits(args[i])
    THEN CHOOSE i \in 1..Len(args) :
             AllDigits(args[i]) /\ \A j \in 1..(i - 1) : ~AllDigits(args[j])
    ELSE 0

\* parseCount(args)
ParseCount_Unclamped(args) ==
    IF FindCountArg(args) # 0 THEN ParseDigits(args[FindCountArg(args)]) ELSE CountMin

ParseCount(args) ==
    IF FindCountArg(args) # 0
    THEN Min(Max(ParseDigits(args[FindCountArg(args)]), CountMin), CountMax)
    ELSE CountMin

\* The items a search answers with: one that downloads, one without url or id,
\* one whose download fails.
ItemKinds == {"good", "invalid", "bad"}

ItemLists == UNION {[1..n -> ItemKinds] : n \in 0..MaxItems}

IdleFetch ==
    [pc |-> "idle", via |-> "none", args |-> <<>>, count |-> 0, items |-> <<>>, i |-> 0,
     attachments |-> 0, embeds |-> 0, errors |-> 0, searches |-> 0, downloads |-> 0,
     outcome |-> NoOutcome]

\* the checks of fetchAndPrepareMedia before the search is issued
FetchValidate(f, queryGiven, count) ==
    IF ~queryGiven
    THEN [f EXCEPT !.pc = "done", !.count = count,
                   !.outcome = [type |-> "ValidationError", message |-> "Query cannot be empty"]]
    ELSE IF count < CountMin \/ count > CountMax
    THEN [f EXCEPT !.pc = "done", !.count = count,
                   !.outcome = [type |-> "ValidationError",
                                message |-> "Count must be between 1 and 5"]]
    ELSE [f EXCEPT !.pc = "search", !.count = count]

\* execute(message, args) of the pfp, banner and gif commands: the query is the
\* joined words or a default, the count is parseCount(args)
CommandExecute(args) ==
    /\ fm.pc = "idle"
    /\ fm' = FetchValidate([IdleFetch EXCEPT !.via = "command", !.args = args],
                           TRUE, ParseCount(args))

\* fetchAndPrepareMedia(query, mediaType, count) called with any query and count
FetchAndPrepareMedia(queryGiven, count) ==
    /\ fm.pc = "idle"
    /\ fm' = FetchValidate([IdleFetch EXCEPT !.via = "direct"], queryGiven, count)

\* searchMedia answers with items: none is a ValidationError, else the first
\* count of them are processed
FetchSearchReturns(items) ==
    /\ fm.pc = "search"
    /\ fm' = IF items = <<>>
             THEN [fm EXCEPT !.pc = "done", !.searches = @ + 1,
                             !.outcome = [type |-> "ValidationError",
                                          message |-> "No media found for query"]]
             ELSE [fm EXCEPT !.pc = "loop", !.searches = @ + 1, !.i = 1,
                             !.items = SubSeq(items, 1, Min(fm.count, Len(items)))]

\* searchMedia raises: the error is logged and raised again
FetchSearchFails ==
    /\ fm.pc = "search"
    /\ fm' = [fm EXCEPT !.pc = "done", !.searches = @ + 1,
                        !.outcome = [type |-> "PinterestAPIError",
                                     message |-> "Failed to search Pinterest"]]

\* one turn of the loop over the items, for an item of kind k
ProcessItem_StopsOnFailure(f, k) ==
    CASE k = "invalid" -> [f EXCEPT !.i = Len(f.items) + 1]
      [] k = "bad" -> [f EXCEPT !.i = Len(f.items) + 1, !.downloads = @ + 1, !.errors = @ + 1]
      [] OTHER -> [f EXCEPT !.i = @ + 1, !.downloads = @ + 1, !.attachments = @ + 1,
                            !.embeds = @ + 1]

ProcessItem(f, k) ==
    CASE k = "invalid" -> [f EXCEPT !.i = @ + 1]
      [] k = "bad" -> [f EXCEPT !.i = @ + 1, !.downloads = @ + 1, !.errors = @ + 1]
      [] OTHER -> [f EXCEPT !.i = @ + 1, !.downloads = @ + 1, !.attachments = @ + 1,
                            !.embeds = @ + 1]

FetchItem ==
    /\ fm.pc = "loop"
    /\ fm.i <= Len(fm.items)
    /\ fm' = ProcessItem(fm, fm.items[fm.i])

\* after the loop: nothing attached is a MediaDownloadError, else the lists are returned
FetchFinish ==
    /\ fm.pc = "loop"
    /\ fm.i > Len(fm.items)
    /\ fm' = IF fm.attachments = 0
             THEN [fm EXCEPT !.pc = "done",
                             !.outcome = [type |-> "MediaDownloadError",
                                          message |-> "Failed to download any media items"]]
             ELSE [fm EXCEPT !.pc = "done",
                             !.outcome = [type |-> "Media", message |-> "none"]]

FetchReturn ==
    /\ fm.pc = "done"
    /\ fm' = IdleFetch

\* ------------------------------------------------------- specifications
Init ==
    /\ now = 0
    /\ store = {}
    /\ pc = [p \in Procs |-> "idle"]
    /\ call = [p \in Procs |-> IdleCall]
    /\ sweep = NoSweep
    /\ admits = [u \in Users |-> [t \in 0..MaxTime |-> 0]]
    /\ queue = <<>>
    /\ running = {}
    /\ finished = {}
    /\ submitted = 0
    /\ intervalCount = 0
    /\ intervalEnd = Interval
    /\ startedAt = [t \in Tasks |-> -1]
    /\ threw = {}
    /\ promise = [t \in Tasks |-> "none"]
    /\ disp = [p \in Procs |-> IdleDispatch]
    /\ usage = <<>>
    /\ dispatched = 0
    /\ dl = IdleDownload
    /\ dv = IdleDelivery
    /\ sr = IdleSearch
    /\ life = "up"
    /\ resets = [u \in Users |-> {}]
    /\ hc = [p \in Procs |-> IdleHandle]
    /\ fm = IdleFetch

\* The history of admissions: a call that returns true, and not from the catch
\* block, is counted at the instant it captured as now.
Returns(p) == pc[p] \in {"ce_read", "ce_write"} /\ pc'[p] = "ce_done"

Observe ==
    admits' =
        IF \E p \in Procs : Returns(p) /\ call'[p].result = "true" /\ ~call'[p].failed
        THEN LET p == CHOOSE q \in Procs : Returns(q)
             IN  [admits EXCEPT ![call[p].userId][call[p].now] = @ + 1]
        ELSE admits

Unobserved(A) ==
    A /\ UNCHANGED admits /\ UNCHANGED queueVars /\ UNCHANGED dispVars
      /\ UNCHANGED retryVars /\ UNCHANGED life
      /\ UNCHANGED moreVars

Observed(A) ==
    A /\ Observe /\ UNCHANGED queueVars /\ UNCHANGED dispVars
      /\ UNCHANGED retryVars /\ UNCHANGED life
      /\ UNCHANGED moreVars

\* Overlapping calls for one identity, an unreliable store, the sweep in between.
Next ==
    \/ Unobserved(Tick)
    \/ \E p \in Procs : Unobserved(CanExecuteBegin(p, RaceUser))
    \/ \E p \in Procs : Unobserved(CanExecuteRead(p))
    \/ \E p \in Procs : Unobserved(CanExecuteWrite(p))
    \/ \E p \in Procs : Unobserved(CanExecuteStoreFails(p))
    \/ \E p \in Procs : Unobserved(CanExecuteReturn(p))
    \/ \E p \in Procs : Unobserved(GetRemainingBegin(p, RaceUser))
    \/ \E p \in Procs : Unobserved(GetRemainingRead(p))
    \/ \E p \in Procs : Unobserved(GetRemainingStoreFails(p))
    \/ \E p \in Procs : Unobserved(GetRemainingReturn(p))
    \/ Unobserved(CleanupBegin)
    \/ Unobserved(CleanupDelete)
    \/ Unobserved(CleanupStoreFails)

Spec == Init /\ [][Next]_vars

\* The same overlapping calls, with the history of admissions recorded.
RaceNext ==
    \/ Observed(Tick)
    \/ \E p \in Procs : Observed(CanExecuteBegin(p, RaceUser))
    \/ \E p \in Procs : Observed(CanExecuteRead(p))
    \/ \E p \in Procs : Observed(CanExecuteWrite(p))
    \/ \E p \in Procs : Observed(CanExecuteStoreFails(p))
    \/ \E p \in Procs : Observed(CanExecuteReturn(p))
    \/ Observed(CleanupBegin)
    \/ Observed(CleanupDelete)
    \/ Observed(CleanupStoreFails)

RaceSpec == Init /\ [][RaceNext]_vars

\* One call at a time (each awaited before the next is made), a reliable store.
AllIdle == (\A p \in Procs : pc[p] = "idle") /\ ~sweep.running

SeqNext ==
    \/ Observed(Tick)
    \/ \E p \in Procs, u \in Users : Observed(AllIdle /\ CanExecuteBegin(p, u))
    \/ \E p \in Procs, u \in Users : Observed(AllIdle /\ GetRemainingBegin(p, u))
    \/ \E p \in Procs, u \in Users : Observed(AllIdle /\ ExecuteBegin(p, u))
    \/ Observed(AllIdle /\ CleanupBegin)
    \/ \E p \in Procs : Observed(CanExecuteRead(p))
    \/ \E p \in Procs : Observed(CanExecuteWrite(p))
    \/ \E p \in Procs : Observed(CanExecuteReturn(p))
    \/ \E p \in Procs : Observed(GetRemainingRead(p))
    \/ \E p \in Procs : Observed(GetRemainingReturn(p))
    \/ \E p \in Procs : Observed(ExecuteChecked(p))
    \/ \E p \in Procs : Observed(ExecuteThrow(p))
    \/ \E p \in Procs : Observed(ExecuteReturn(p))
    \/ Observed(CleanupDelete)

SeqSpec == Init /\ [][SeqNext]_vars

\* canExecute calls made one after the other, with the history of the windows
\* they opened: a create, or an update that resets the row, opens one at the
\* instant the call captured.
ObserveResets ==
    resets' =
        IF \E p \in Procs : /\ pc[p] = "ce_write" /\ pc'[p] = "ce_done"
                             /\ call[p].next \in {"create", "reset"}
                             /\ ~call'[p].failed
        THEN LET p == CHOOSE q \in Procs : pc[q] = "ce_write" /\ pc'[q] = "ce_done"
             IN  [resets EXCEPT ![call[p].userId] = @ \cup {call[p].now}]
        ELSE resets

Windowed(A) ==
    A /\ Observe /\ ObserveResets /\ UNCHANGED queueVars /\ UNCHANGED dispVars
      /\ UNCHANGED retryVars /\ UNCHANGED <<life, hc, fm>>

WindowNext ==
    \/ Windowed(Tick)
    \/ \E p \in Procs, u \in Users : Windowed(AllIdle /\ CanExecuteBegin(p, u))
    \/ \E p \in Procs : Windowed(CanExecuteRead(p))
    \/ \E p \in Procs : Windowed(CanExecuteWrite(p))
    \/ \E p \in Procs : Windowed(CanExecuteReturn(p))
    \/ Windowed(AllIdle /\ CleanupBegin)
    \/ Windowed(CleanupDelete)

WindowSpec == Init /\ [][WindowNext]_vars

\* The command queue alone: tasks are added, run and settle while the clock advances.
QueueNext ==
    \/ QueueAdd /\ UNCHANGED <<store, pc, call, sweep, admits, disp, usage, dispatched, dl, dv, sr, life, moreVars>>
    \/ (\E t \in Tasks : QueueFinish(t)) /\ UNCHANGED <<store, pc, call, sweep, admits, disp, usage, dispatched, dl, dv, sr, life, moreVars>>
    \/ (\E t \in Tasks : QueueFail(t)) /\ UNCHANGED <<store, pc, call, sweep, admits, disp, usage, dispatched, dl, dv, sr, life, moreVars>>
    \/ OnInterval /\ UNCHANGED <<store, pc, call, sweep, admits, disp, usage, dispatched, dl, dv, sr, life, moreVars>>
    \/ QueueTick /\ UNCHANGED <<store, pc, call, sweep, admits, disp, usage, dispatched, dl, dv, sr, life, moreVars>>

QueueSpec == Init /\ [][QueueNext]_vars

\* The command queue with the clock left out: the run is taken at the horizon of the
\* clock, where the interval timer fires without the clock moving.  Every started
\* command function settles and the timer keeps firing.
QueueOnly(A) ==
    A /\ UNCHANGED <<store, pc, call, sweep, admits, disp, usage, dispatched>>
      /\ UNCHANGED retryVars /\ UNCHANGED life
      /\ UNCHANGED moreVars

QueueLiveNext ==
    \/ QueueOnly(QueueAdd)
    \/ \E t \in Tasks : QueueOnly(QueueFinish(t))
    \/ \E t \in Tasks : QueueOnly(QueueFail(t))
    \/ QueueOnly(OnIntervalLate)

QueueLiveInit ==
    /\ now = MaxQueueTime
    /\ store = {}
    /\ pc = [p \in Procs |-> "idle"]
    /\ call = [p \in Procs |-> IdleCall]
    /\ sweep = NoSweep
    /\ admits = [u \in Users |-> [t \in 0..MaxTime |-> 0]]
    /\ queue = <<>>
    /\ running = {}
    /\ finished = {}
    /\ submitted = 0
    /\ intervalCount = 0
    /\ intervalEnd = MaxQueueTime + Interval
    /\ startedAt = [t \in Tasks |-> -1]
    /\ threw = {}
    /\ promise = [t \in Tasks |-> "none"]
    /\ disp = [p \in Procs |-> IdleDispatch]
    /\ usage = <<>>
    /\ dispatched = 0
    /\ dl = IdleDownload
    /\ dv = IdleDelivery
    /\ sr = IdleSearch
    /\ life = "up"
    /\ resets = [u \in Users |-> {}]
    /\ hc = [p \in Procs |-> IdleHandle]
    /\ fm = IdleFetch

QueueLiveSpec ==
    /\ QueueLiveInit
    /\ [][QueueLiveNext]_vars
    /\ \A t \in Tasks : WF_vars(QueueOnly(QueueFinish(t) \/ QueueFail(t)))
    /\ WF_vars(QueueOnly(OnIntervalLate))

\* As many commands as there are callers, dispatched by overlapping handleCommand
\* calls for one identity within one instant: the limiter, the queue and the
\* ledger, with the store unreliable.
Limiter(A) ==
    A /\ UNCHANGED admits /\ UNCHANGED queueVars /\ UNCHANGED dispVars
      /\ UNCHANGED retryVars /\ UNCHANGED life
      /\ UNCHANGED moreVars

\* The rateLimit table outlives the process: the identity may start with a row of
\* an earlier run, holding any count up to the quota in a window still open.
DispatchInit ==
    /\ now = 0
    /\ \E c \in 0..MaxRequests :
           store = IF c = 0 THEN {} ELSE {[userId |-> RaceUser, count |-> c, resetAt |-> WindowMs]}
    /\ pc = [p \in Procs |-> "idle"]
    /\ call = [p \in Procs |-> IdleCall]
    /\ sweep = NoSweep
    /\ admits = [u \in Users |-> [t \in 0..MaxTime |-> 0]]
    /\ queue = <<>>
    /\ running = {}
    /\ finished = {}
    /\ submitted = 0
    /\ intervalCount = 0
    /\ intervalEnd = Interval
    /\ startedAt = [t \in Tasks |-> -1]
    /\ threw = {}
    /\ promise = [t \in Tasks |-> "none"]
    /\ disp = [p \in Procs |-> IdleDispatch]
    /\ usage = <<>>
    /\ dispatched = 0
    /\ dl = IdleDownload
    /\ dv = IdleDelivery
    /\ sr = IdleSearch
    /\ life = "up"
    /\ resets = [u \in Users |-> {}]
    /\ hc = [p \in Procs |-> IdleHandle]
    /\ fm = IdleFetch

DispatchNext ==
    \/ \E p \in Procs, k \in CommandNames :
           ExecuteCommandBegin(p, RaceUser, k) /\ UNCHANGED <<admits, dl, dv, sr, life, moreVars>>
    \/ \E p \in Procs : Limiter(CanExecuteRead(p))
    \/ \E p \in Procs : Limiter(CanExecuteWrite(p))
    \/ \E p \in Procs : Limiter(CanExecuteStoreFails(p))
    \/ \E p \in Procs : Limiter(GetRemainingRead(p))
    \/ \E p \in Procs : Limiter(GetRemainingStoreFails(p))
    \/ \E p \in Procs : ExecuteDenied(p) /\ UNCHANGED <<admits, dl, dv, sr, life, moreVars>>
    \/ \E p \in Procs : ExecuteRaise(p) /\ UNCHANGED <<admits, dl, dv, sr, life, moreVars>>
    \/ \E p \in Procs : ExecuteEnqueue(p) /\ UNCHANGED <<admits, dl, dv, sr, life, moreVars>>
    \/ \E t \in Tasks : HandlerReturns(t) /\ UNCHANGED <<admits, dl, dv, sr, life, moreVars>>
    \/ \E t \in Tasks, e \in HandlerErrors : HandlerRaises(t, e) /\ UNCHANGED <<admits, dl, dv, sr, life, moreVars>>
    \/ \E p \in Procs : ExecuteCommandSettled(p) /\ UNCHANGED <<admits, dl, dv, sr, life, moreVars>>
    \/ \E p \in Procs : LogCommandUsageWrite(p) /\ UNCHANGED <<admits, dl, dv, sr, life, moreVars>>
    \/ \E p \in Procs : LogCommandUsageStoreFails(p) /\ UNCHANGED <<admits, dl, dv, sr, life, moreVars>>
    \/ \E p \in Procs : HandleCommandResult(p) /\ UNCHANGED <<admits, dl, dv, sr, life, moreVars>>
    \/ \E p \in Procs : HandleCommandDenied(p) /\ UNCHANGED <<admits, dl, dv, sr, life, moreVars>>
    \/ \E p \in Procs : HandleCommandReplied(p) /\ UNCHANGED <<admits, dl, dv, sr, life, moreVars>>

DispatchSpec == DispatchInit /\ [][DispatchNext]_vars

\* Overlapping canExecute calls for one identity and the sweep, with a reliable store.
SweepNext ==
    \/ Unobserved(Tick)
    \/ \E p \in Procs : Unobserved(CanExecuteBegin(p, RaceUser))
    \/ \E p \in Procs : Unobserved(CanExecuteRead(p))
    \/ \E p \in Procs : Unobserved(CanExecuteWrite(p))
    \/ \E p \in Procs : Unobserved(CanExecuteReturn(p))
    \/ Unobserved(CleanupBegin)
    \/ Unobserved(CleanupDelete)

SweepSpec == Init /\ [][SweepNext]_vars

\* The three retry loops, each on its own, with everything else at rest.
RetryOnly(A) ==
    A /\ UNCHANGED <<limVars, admits, queueVars, dispVars, life, moreVars>>

DownloadNext ==
    \/ \E valid \in BOOLEAN : RetryOnly(DownloadBegin(valid))
    \/ \E r \in DownloadResponses : RetryOnly(DownloadResponse(r))
    \/ RetryOnly(DownloadWaited)
    \/ RetryOnly(DownloadReturn)

DownloadSpec == Init /\ [][DownloadNext]_vars

\* Every request of a download settles (axios.get has a timeout) and every timer fires.
DownloadLiveSpec ==
    /\ Init
    /\ [][DownloadNext]_vars
    /\ WF_vars(\E r \in DownloadResponses : RetryOnly(DownloadResponse(r)))
    /\ WF_vars(RetryOnly(DownloadWaited))

DeliveryNext ==
    \/ \E kind \in {"send", "reply"} : RetryOnly(DeliverBegin(kind))
    \/ \E r \in DeliveryResponses : RetryOnly(DeliverResponse(r))
    \/ RetryOnly(DeliverWaited)
    \/ RetryOnly(DeliverReturn)

DeliverySpec == Init /\ [][DeliveryNext]_vars

SearchNext ==
    \/ RetryOnly(SearchBegin)
    \/ \E r \in SearchResponses : RetryOnly(SearchResponse(r))
    \/ RetryOnly(SearchWaited)
    \/ RetryOnly(SearchReturn)

\* Every request is answered and every timer fires.
SearchSpec ==
    /\ Init
    /\ [][SearchNext]_vars
    /\ WF_vars(\E r \in SearchResponses : RetryOnly(SearchResponse(r)))
    /\ WF_vars(RetryOnly(SearchWaited))

\* The queue of a process that may be told to shut down: nothing runs after
\* process.exit.
Alive(A) ==
    /\ life # "exited"
    /\ A
    /\ UNCHANGED <<store, pc, call, sweep, admits, disp, usage, dispatched>>
    /\ UNCHANGED retryVars
    /\ UNCHANGED moreVars

ShutdownNext ==
    \/ Alive(QueueAdd /\ UNCHANGED life)
    \/ \E t \in Tasks : Alive(QueueFinish(t) /\ UNCHANGED life)
    \/ \E t \in Tasks : Alive(QueueFail(t) /\ UNCHANGED life)
    \/ Alive(OnIntervalLate /\ UNCHANGED life)
    \/ Alive(ShutdownBegin /\ UNCHANGED queueVars /\ UNCHANGED now)
    \/ Alive(ShutdownExit /\ UNCHANGED queueVars /\ UNCHANGED now)

ShutdownSpec == QueueLiveInit /\ [][ShutdownNext]_vars

\* fetchAndPrepareMedia on its own, called by a command or directly.
FetchOnly(A) ==
    A /\ UNCHANGED <<limVars, admits, queueVars, dispVars, retryVars, life, resets, hc>>

FetchNext ==
    \/ \E args \in ArgLists : FetchOnly(CommandExecute(args))
    \/ \E q \in BOOLEAN, count \in (CountMin - 2)..(CountMax + 2) :
           FetchOnly(FetchAndPrepareMedia(q, count))
    \/ \E items \in ItemLists : FetchOnly(FetchSearchReturns(items))
    \/ FetchOnly(FetchSearchFails)
    \/ FetchOnly(FetchItem)
    \/ FetchOnly(FetchFinish)
    \/ FetchOnly(FetchReturn)

FetchSpec == Init /\ [][FetchNext]_vars

\* Messages handled from their arrival on: the dispatch of DispatchSpec behind
\* the early returns and the replies of handleCommand.
Handling(A) ==
    A /\ UNCHANGED <<admits, dl, dv, sr, life, resets, fm>>

MessageNext ==
    \/ \E p \in Procs, m \in Messages : Handling(HandleCommand(p, m))
    \/ \E p \in Procs : Limiter(CanExecuteRead(p))
    \/ \E p \in Procs : Limiter(CanExecuteWrite(p))
    \/ \E p \in Procs : Limiter(CanExecuteStoreFails(p))
    \/ \E p \in Procs : Limiter(GetRemainingRead(p))
    \/ \E p \in Procs : Limiter(GetRemainingStoreFails(p))
    \/ \E p \in Procs : Handling(ExecuteDenied(p) /\ UNCHANGED hc)
    \/ \E p \in Procs : Handling(ExecuteRaise(p) /\ UNCHANGED hc)
    \/ \E p \in Procs : Handling(ExecuteEnqueue(p) /\ UNCHANGED hc)
    \/ \E t \in Tasks : Handling(HandlerReturns(t) /\ UNCHANGED hc)
    \/ \E t \in Tasks, e \in HandlerErrors : Handling(HandlerRaises(t, e) /\ UNCHANGED hc)
    \/ \E p \in Procs : Handling(ExecuteCommandSettled(p) /\ UNCHANGED hc)
    \/ \E p \in Procs : Handling(LogCommandUsageWrite(p) /\ UNCHANGED hc)
    \/ \E p \in Procs : Handling(LogCommandUsageStoreFails(p) /\ UNCHANGED hc)
    \/ \E p \in Procs : Handling(HandleCommandDenied(p) /\ UNCHANGED hc)
    \/ \E p \in Procs : Handling(HandleCommandOutcome(p))
    \/ \E p \in Procs, delivered \in BOOLEAN : Handling(HandleCommandReplySettles(p, delivered))
    \/ \E p \in Procs : Handling(HandleCommandGeneric(p))
    \/ \E p \in Procs : Handling(HandleCommandRateLimitReplied(p))
    \/ \E p \in Procs : Handling(HandleCommandDone(p))

MessageSpec == DispatchInit /\ [][MessageNext]_vars

\* ------------------------------------------------------------ properties
\* How many admitted calls of user u (the catch block aside) captured an instant in lo..hi.
RECURSIVE AdmittedIn(_, _, _)
AdmittedIn(u, lo, hi) ==
    IF lo > hi THEN 0
    ELSE (IF lo \in 0..MaxTime THEN admits[u][lo] ELSE 0) + AdmittedIn(u, lo + 1, hi)

RowsOf(u) == {r \in store : r.userId = u}

Live(r, t) == ~(r.resetAt < t)

CanExecuteDone(p) == pc[p] = "ce_done" /\ ~call[p].failed

\* C1: with calls made one after the other, the window of every stored row (the
\* WindowMs instants up to its resetAt) holds at most maxRequests admitted calls:
\* once maxRequests calls are admitted in it, every further call captured up to
\* resetAt has returned false.
C1_WindowQuota ==
    \A u \in Users : \A r \in RowsOf(u) :
        AdmittedIn(u, r.resetAt - WindowMs, r.resetAt) <= MaxRequests

\* C1 witness: a call is denied in a window that already holds maxRequests admissions.
C1_Witness ==
    \E p \in Procs :
        /\ CanExecuteDone(p)
        /\ call[p].result = "false"
        /\ Live(call[p].rateLimit, call[p].now)
        /\ AdmittedIn(call[p].userId, call[p].rateLimit.resetAt - WindowMs,
                      call[p].rateLimit.resetAt) = MaxRequests

\* C2: also when calls for one identity overlap, no window of a stored row holds
\* more than maxRequests admitted calls (no increment is lost).
C2_NoLostIncrement ==
    \A r \in RowsOf(RaceUser) :
        AdmittedIn(RaceUser, r.resetAt - WindowMs, r.resetAt) < MaxRequests + 1

\* C3: the table holds at most one row per identity, and a row whose resetAt has
\* not passed has count <= maxRequests.
C3_OneRowWithinQuota ==
    /\ \A u \in Users : Cardinality(RowsOf(u)) <= 1
    /\ \A r \in store : Live(r, now) => r.count <= MaxRequests

\* C3 witness: a live row is at the quota while a sweep and a canExecute write are pending.
C3_Witness ==
    /\ \E r \in store : Live(r, now) /\ r.count = MaxRequests
    /\ \E p \in Procs : pc[p] = "ce_write"
    /\ sweep.running

\* C4: a canExecute call that met a store failure (at its read, its create or its
\* update) returns true, has logged the error, and lets no exception escape.
C4_FailOpen ==
    \A p \in Procs :
        (pc[p] = "ce_done" /\ call[p].failed) =>
            /\ call[p].result = "true"
            /\ call[p].logged

\* C4 witness: the store failed at the write of a call, and at the read of a call
\* made while the row was at its quota.
C4_Witness ==
    /\ \E p \in Procs : pc[p] = "ce_done" /\ call[p].failed /\ call[p].next # "none"
    /\ \E p \in Procs :
          /\ pc[p] = "ce_done" /\ call[p].failed /\ call[p].next = "none"
          /\ \E r \in RowsOf(call[p].userId) :
                Live(r, call[p].now) /\ r.count >= MaxRequests

\* C5: a call that read no row, or a row whose resetAt is before its now, returns
\* true and leaves the row of its identity at count 1, resetAt = now + windowMs.
C5_FreshWindow ==
    \A p \in Procs :
        (CanExecuteDone(p) /\ (call[p].rateLimit = NoRecord
                               \/ call[p].rateLimit.resetAt < call[p].now)) =>
            /\ call[p].result = "true"
            /\ RowsOf(call[p].userId) =
                 {[userId |-> call[p].userId, count |-> 1,
                   resetAt |-> call[p].now + WindowMs]}

\* C5 witness: the row read was at its quota and expired; the call was admitted.
C5_Witness ==
    \E p \in Procs :
        /\ CanExecuteDone(p)
        /\ call[p].rateLimit # NoRecord
        /\ call[p].rateLimit.count = MaxRequests
        /\ call[p].rateLimit.resetAt < call[p].now
        /\ call[p].result = "true"

\* C6: a call that read a live row with count >= maxRequests returns false without
\* writing, and the RateLimitError executeWithRateLimit raises for it carries the
\* resetAt of that row.
C6_DenialCarriesStoredResetAt ==
    \A p \in Procs :
        (/\ pc[p] \in {"ce_done", "rem_read", "rem_done", "ex_done"}
         /\ call[p].top \in {"canExecute", "execute"}
         /\ call[p].rateLimit # NoRecord
         /\ Live(call[p].rateLimit, call[p].now)
         /\ call[p].rateLimit.count >= MaxRequests) =>
            /\ call[p].result = "false"
            /\ ~call[p].wrote
            /\ FindUnique(store, call[p].userId) = call[p].rateLimit
            /\ pc[p] = "ex_done" =>
                  /\ call[p].outcome = "RateLimitError"
                  /\ call[p].resetAt = call[p].rateLimit.resetAt

\* C7: a step of getRemainingRequests leaves the table as it was, so the decision
\* and the resulting table of a canExecute made after it are those of one made before.
C7_RemainingReadOnly ==
    [][\A p \in Procs :
          (pc[p] = "rem_read" /\ pc'[p] = "rem_done") =>
              /\ store' = store
              /\ \A u \in Users :
                    CanExecuteAtomic(store', u, now') = CanExecuteAtomic(store, u, now)]_vars

\* C7 witness: two getRemainingRequests calls have answered for an identity whose
\* row is expired, and the row is still there.
C7_Witness ==
    /\ \A p \in Procs : pc[p] = "rem_done" /\ call[p].top = "getRemaining"
                        /\ call[p].remaining = MaxRequests /\ ~call[p].failed
    /\ \E r \in RowsOf(RaceUser) : r.resetAt < now /\ r.count = MaxRequests

StartedIn(lo, hi) == {t \in Tasks : startedAt[t] >= lo /\ startedAt[t] <= hi}

\* C8: the number of command functions executing at once never exceeds queueConcurrency.
C8_ConcurrencyBound == Cardinality(running) <= QueueConcurrency

\* C8 witness: every slot is taken and a task waits although the interval cap has room.
C8_Witness ==
    /\ Cardinality(running) = QueueConcurrency
    /\ Len(queue) > 0
    /\ intervalCount < QueueConcurrency

\* C9: in each interval of the queue (Interval instants from a multiple of Interval)
\* at most queueConcurrency tasks are started.
C9_IntervalCap ==
    \A k \in 0..MaxQueueTime :
        Cardinality(StartedIn(k * Interval, k * Interval + Interval - 1)) <= QueueConcurrency

\* C9 witness: a task started in the current interval has finished, a slot is free,
\* and a task still waits because the interval has had its queueConcurrency starts.
C9_Witness ==
    /\ Cardinality(running) < QueueConcurrency
    /\ Len(queue) > 0
    /\ \E t \in finished : startedAt[t] >= intervalEnd - Interval
    /\ Cardinality(StartedIn(intervalEnd - Interval, intervalEnd - 1)) = QueueConcurrency

\* C10 as claimed: any span of Interval instants holds at most queueConcurrency starts.
C10_SlidingCap ==
    \A s \in 0..MaxQueueTime :
        Cardinality(StartedIn(s, s + Interval - 1)) <= QueueConcurrency

\* C10 amended: any span of Interval instants holds at most 2 * queueConcurrency
\* starts (it meets at most two intervals of the queue).
C10_SlidingTwiceCap ==
    \A s \in 0..MaxQueueTime :
        Cardinality(StartedIn(s, s + Interval - 1)) <= 2 * QueueConcurrency

\* C10 witness: a span of Interval instants across an interval boundary holds
\* 2 * queueConcurrency starts.
C10_Witness ==
    \E s \in 0..MaxQueueTime :
        Cardinality(StartedIn(s, s + Interval - 1)) = 2 * QueueConcurrency

\* C11: tasks start in the order they were added to the command queue (task ids
\* count the additions): a task that has started never has an earlier task that
\* has not started yet or that started later.
C11_StartsInArrivalOrder ==
    \A a \in Tasks : \A b \in Tasks :
        (a < b /\ startedAt[b] >= 0) =>
            (startedAt[a] >= 0 /\ startedAt[a] <= startedAt[b])

\* C11 witness: a later task waits in the queue behind an earlier one, and another
\* task that had to wait was started after its predecessor.
C11_Witness ==
    /\ Len(queue) >= 2
    /\ \E a \in Tasks : \E b \in Tasks :
           a < b /\ startedAt[a] >= 0 /\ startedAt[b] > startedAt[a]

\* C12: the step in which the command function of a running task t raises rejects
\* the promise of t and no other, leaves every other running task running,
\* releases the slot of t, and starts the head of the queue when the interval
\* cap has room.
C12_FailureIsolated ==
    [][\A t \in Tasks :
          (t \in running /\ t \in threw' /\ t \notin threw) =>
              /\ promise' = [promise EXCEPT ![t] = "rejected"]
              /\ finished' = finished \cup {t}
              /\ t \notin running'
              /\ (running \ {t}) \subseteq running'
              /\ (Len(queue) > 0 /\ intervalCount < IntervalCap) =>
                     (Head(queue) \in running' /\ queue' = Tail(queue))]_vars

\* C12 witness: a task failed while the other slots were held by tasks that are
\* still running, its promise is rejected, and a task added after it has started.
C12_Witness ==
    \E t \in threw :
        /\ promise[t] = "rejected"
        /\ Cardinality({s \in running : s < t}) = Concurrency - 1
        /\ \E w \in Tasks : w > t /\ startedAt[w] >= 0

\* C13: with every started command function settling and time running on, every
\* task added to the command queue is started and its promise settles; none is
\* refused or dropped, however many are waiting.
C13_EveryTaskSettles ==
    \A t \in Tasks :
        (promise[t] = "pending") ~>
            (startedAt[t] >= 0 /\ promise[t] \in {"resolved", "rejected"})

\* C13 witness: every slot is taken, a task is waiting behind them, and a task
\* that had to wait for the interval timer has been started and has settled.
C13_Witness ==
    /\ Cardinality(running) = Concurrency
    /\ Len(queue) >= 1
    /\ \E t \in finished :
           t > IntervalCap /\ startedAt[t] >= 0 /\ promise[t] \in {"resolved", "rejected"}

\* executeCommand has returned a result or raised an error to handleCommand
Exited(p) == disp[p].at \in {"returned", "raised"}

\* the rows of commandUsage written for the dispatch that queued task t
UsageOf(t) == {i \in 1..Len(usage) : usage[i].task = t}

\* what executeCommand returns for an admitted dispatch whose handler has settled
ExpectedResult(p) ==
    IF promise[disp[p].task] = "resolved"
    THEN [success |-> TRUE, error |-> "none"]
    ELSE [success |-> FALSE, error |-> disp[p].error.message]

\* C14: a dispatch whose name is no registered command or alias never enters
\* canExecute (its caller has no limiter call, so no quota is consumed), adds no
\* task to the queue, writes no UsageRecord, and returns {success: false, error}.
C14_UnknownCommandIsFree ==
    \A p \in Procs :
        disp[p].cmd = "unknown" =>
            /\ pc[p] = "idle"
            /\ call[p] = IdleCall
            /\ disp[p].admitted = "none"
            /\ disp[p].task = 0
            /\ disp[p].writes = 0
            /\ disp[p].at = "returned"
            /\ disp[p].result = [success |-> FALSE, error |-> "Unknown command"]

\* C14 witness: an unknown command has returned while the other caller's known
\* command is past its admission.
C14_Witness ==
    \E p \in Procs : \E q \in Procs :
        /\ disp[p].cmd = "unknown"
        /\ disp[p].at = "returned"
        /\ disp[q].cmd = "known"
        /\ disp[q].admitted = "true"

\* C15: a dispatch that was denied admission has no task in the command queue (its
\* handler is never run) and has written no UsageRecord, up to the end of
\* handleCommand; every UsageRecord belongs to a dispatch that queued a task.
C15_DeniedRunsNothing ==
    /\ \A p \in Procs :
           disp[p].admitted = "false" =>
               /\ disp[p].task = 0
               /\ disp[p].writes = 0
               /\ disp[p].at \in {"execute", "raised", "remaining"}
    /\ \A i \in 1..Len(usage) : usage[i].task # 0

\* C15 witness: handleCommand is about to reply to a denied dispatch, after its
\* own getRemainingRequests has answered.
C15_Witness ==
    \E p \in Procs :
        /\ disp[p].admitted = "false"
        /\ disp[p].at = "remaining"
        /\ pc[p] = "rem_done"

\* the UsageRecord of an admitted dispatch p that has left executeCommand: exactly
\* one, with the outcome of the handler, and the matching result
OneUsageRecord(p) ==
    /\ disp[p].at = "returned"
    /\ disp[p].writes = 1
    /\ Cardinality(UsageOf(disp[p].task)) = 1
    /\ \A i \in UsageOf(disp[p].task) :
           /\ usage[i].success = (promise[disp[p].task] = "resolved")
           /\ usage[i].error = ExpectedResult(p).error
    /\ disp[p].result = ExpectedResult(p)

\* no UsageRecord is written before the handler of its dispatch has finished, and
\* never two for one dispatch
UsageAfterHandler ==
    \A t \in Tasks :
        /\ Cardinality(UsageOf(t)) <= 1
        /\ \A i \in UsageOf(t) : t \in finished /\ usage[i].success = (t \notin threw)

\* C16 as stated: every admitted dispatch that has left executeCommand has written
\* exactly one UsageRecord, after its handler finished, with the handler's outcome.
C16_ExactlyOneUsageRecord ==
    /\ UsageAfterHandler
    /\ \A p \in Procs : (Exited(p) /\ disp[p].admitted = "true") => OneUsageRecord(p)

\* C16 amended: the same, for the dispatches whose write to commandUsage did not
\* fail; a dispatch whose write failed has written none.
C16_OneUsageRecordUnlessWriteFails ==
    /\ UsageAfterHandler
    /\ \A p \in Procs :
           (Exited(p) /\ disp[p].admitted = "true") =>
               IF disp[p].logFailed
               THEN disp[p].writes = 0 /\ UsageOf(disp[p].task) = {}
               ELSE OneUsageRecord(p)

\* C16 witness: one dispatch has logged a handler failure and the other a success.
C16_Witness ==
    \E p \in Procs : \E q \in Procs :
        /\ Exited(p) /\ disp[p].admitted = "true" /\ ~disp[p].logFailed
        /\ ~disp[p].result.success
        /\ Exited(q) /\ disp[q].admitted = "true" /\ ~disp[q].logFailed
        /\ disp[q].result.success

\* C17: the only error executeCommand raises is the RateLimitError that
\* executeWithRateLimit threw for a denied dispatch, with the resetAt it was built
\* with; the error of a handler is returned as {success: false, error: message}.
C17_OnlyRateLimitErrorEscapes ==
    \A p \in Procs :
        /\ disp[p].at = "raised" =>
               /\ disp[p].admitted = "false"
               /\ disp[p].error = RateLimitError(call[p].resetAt)
        /\ (Exited(p) /\ disp[p].admitted = "true"
              /\ promise[disp[p].task] = "rejected") =>
               /\ disp[p].at = "returned"
               /\ disp[p].result = [success |-> FALSE, error |-> disp[p].error.message]

\* C17 witness: one dispatch has raised its RateLimitError while the other returned
\* the failure of its handler.
C17_Witness ==
    \E p \in Procs : \E q \in Procs :
        /\ disp[p].at = "raised"
        /\ disp[q].at = "returned"
        /\ disp[q].admitted = "true"
        /\ disp[q].error \in HandlerErrors

\* C18: a handler failure that is a downstream throttling response leaves
\* executeCommand as a raised error, not as a returned result.
C18_ThrottlingIsRaised ==
    \A p \in Procs :
        (Exited(p) /\ disp[p].error.throttled) => disp[p].at = "raised"

\* C19: a dispatch whose write to commandUsage failed has left logCommandUsage
\* without an error: executeCommand returns, with the result the outcome of the
\* handler calls for.
C19_LedgerFailureSwallowed ==
    \A p \in Procs :
        disp[p].logFailed =>
            /\ disp[p].at = "returned"
            /\ disp[p].result = ExpectedResult(p)

\* C19 witness: the write failed for a dispatch whose handler had succeeded and for
\* one whose handler had raised.
C19_Witness ==
    \E p \in Procs : \E q \in Procs :
        /\ disp[p].logFailed /\ disp[p].result.success
        /\ disp[q].logFailed /\ ~disp[q].result.success

C29_SweepRemovesOnlyExpired ==
    [][(sweep.running /\ ~sweep'.running) =>
          /\ \/ store' = {r \in store : ~(r.resetAt < sweep.now)}
             \/ store' = store
          /\ \A r \in store : ~(r.resetAt < sweep.now) => r \in store'
          /\ DeleteExpired(store', sweep.now) = store' \/ store' = store
          /\ pc' = pc /\ call' = call]_vars

\* C29 witness: a caller still holds the expired row it read, the sweep has run
\* and the table no longer has a row for that identity.
C29_Witness ==
    /\ ~sweep.running
    /\ \E p \in Procs :
           /\ call[p].rateLimit # NoRecord
           /\ call[p].rateLimit.resetAt < now
           /\ RowsOf(call[p].userId) = {}

\* C30: with a reliable store, a canExecute that decided to update the row it read
\* (a reset of an expired window or an increment) returns true with its write
\* done, so that the table holds the row counting its admission, whatever the
\* sweep did in between.
C30_SweptAdmissionIsCounted ==
    \A p \in Procs :
        (pc[p] = "ce_done" /\ call[p].next \in {"reset", "incr"}) =>
            (call[p].result = "true" /\ ~call[p].failed)

\* ---------------------------------------------------------------- retries
\* the failures a download treats as throttling: a 429 or a connection timeout
DownloadThrottled(r) == r.kind \in {"429", "timeout"}

\* how many of the first n responses of the download were throttled
RECURSIVE ThrottledBefore(_, _)
ThrottledBefore(rs, n) ==
    IF n = 0 THEN 0
    ELSE ThrottledBefore(rs, n - 1) + (IF DownloadThrottled(rs[n]) THEN 1 ELSE 0)

\* C21: a download throttled on its first K attempts and then answered, K < 3,
\* has waited exactly K times and returns the buffer; one throttled on all 3
\* attempts fails with the throttling error.
C21_ThrottledDownloadOutcome ==
    (/\ dl.pc = "done"
     /\ Len(dl.responses) > 0
     /\ \A i \in 1..(Len(dl.responses) - 1) : DownloadThrottled(dl.responses[i])) =>
        LET n == Len(dl.responses)
            final == dl.responses[n]
        IN  /\ final.kind = "ok" =>
                /\ Len(dl.waits) = n - 1
                /\ dl.outcome.type = "Buffer"
            /\ (DownloadThrottled(final) /\ n = MaxRetries) =>
                /\ dl.outcome.type = "MediaDownloadError"
                /\ dl.outcome.message # "Failed after attempts"
                /\ Len(dl.waits) = MaxRetries - 1

\* C22: a download failure that is neither a 429 nor a connection timeout ends
\* the download with that attempt: no wait and no further attempt.
C22_OtherFailurePropagatesAtOnce ==
    [][\A r \in DownloadResponses :
           (/\ dl.pc = "request"
            /\ dl'.responses = Append(dl.responses, r)
            /\ r.kind \in {"empty", "http", "network"}) =>
               /\ dl'.pc = "done"
               /\ dl'.waits = dl.waits]_vars

\* C23: a search request that has been issued is eventually settled, with the
\* results or with a PinterestAPIError.
C23_SearchSettles ==
    (sr.pc = "request") ~> (sr.pc = "done" /\ sr.outcome.type \in {"Results", "PinterestAPIError"})

\* C24: a delivery makes at most two attempts; the second one follows a first
\* one refused with code 50035 or status 429 and one wait of the error's
\* retry_after (2000 ms when absent); whatever the last attempt settles with is
\* what the caller gets.
C24_AtMostOneRetry ==
    /\ dv.attempt <= 2
    /\ Len(dv.responses) <= 2
    /\ Len(dv.waits) = (IF dv.attempt = 2 THEN 1 ELSE 0)
    /\ (Len(dv.responses) >= 1 /\ dv.attempt = 1 /\ dv.pc = "done") =>
           ~(dv.responses[1].code = 50035 \/ dv.responses[1].status = 429)
    /\ (Len(dv.responses) >= 1 /\ (dv.attempt = 2 \/ dv.pc = "wait")) =>
           LET e == dv.responses[1]
               w == IF e.retry_after > 0 THEN e.retry_after ELSE 2000
           IN  /\ e.code = 50035 \/ e.status = 429
               /\ IF dv.pc = "wait" THEN dv.pending = w ELSE dv.waits = <<w>>
    /\ dv.pc = "done" => dv.outcome = dv.responses[Len(dv.responses)]

C24_Witness ==
    /\ dv.pc = "done"
    /\ dv.kind = "reply"
    /\ dv.attempt = 2
    /\ dv.responses[1].code = 50035
    /\ dv.waits = <<2000>>
    /\ dv.outcome.status = 429

\* the seconds a retry-after header asks for
HeaderSeconds(h) == CASE h = "0" -> 0 [] h = "1" -> 1 [] h = "2" -> 2

\* the wait the search owes to a retry-after header, in ms
ExpectedSearchWait(h) == IF h = "none" THEN 5000 ELSE HeaderSeconds(h) * 1000

\* C25: after a 429 the search waits retry-after seconds x 1000 ms, or 5000 ms
\* without the header, and the caller gets what the retried request settles with.
C25_SearchWaitAndResult ==
    /\ sr.pc = "wait" =>
           /\ sr.last.kind = "429"
           /\ sr.pending = ExpectedSearchWait(sr.last.header)
    /\ sr.pc = "done" =>
           /\ sr.last.kind \in {"ok", "http", "network"}
           /\ sr.outcome.type = (IF sr.last.kind = "ok" THEN "Results" ELSE "PinterestAPIError")
    /\ sr.pc = "request" =>
           /\ sr.attempts >= 1
           /\ sr.attempts > 1 => sr.last.kind = "429"
           /\ sr.attempts > 1 =>
                  sr.waits[Len(sr.waits)] = ExpectedSearchWait(sr.last.header)

C25_Witness ==
    /\ sr.pc = "done"
    /\ sr.attempts = 3
    /\ sr.waits = <<2000, 5000>>
    /\ sr.outcome.type = "Results"

\* C26 as stated: at most 3 attempts; after a 429 with a retry-after header the
\* wait is that many seconds, and after a connection timeout on attempt a it is
\* min((a+1) * 2000, 10000) ms.
C26_WaitsAsStated ==
    /\ Len(dl.responses) <= 3
    /\ dl.pc = "wait" =>
           LET r == dl.responses[Len(dl.responses)]
           IN  /\ (r.kind = "429" /\ r.header # "none") =>
                       dl.pending = HeaderSeconds(r.header) * 1000
               /\ r.kind = "timeout" =>
                       dl.pending = Min((dl.attempt + 1) * 2000, 10000)

\* C26: at most 3 attempts; after a 429 the wait is retry-after seconds x 1000
\* ms, or min((a+1) * 2000, 10000) ms without the header; after a connection
\* timeout on attempt a < 2 it is (a+1) * 1000 ms, and a connection timeout on
\* the third attempt fails without a wait.
C26_DownloadWaits ==
    /\ Len(dl.responses) <= 3
    /\ dl.attempt <= 3
    /\ dl.pc = "wait" =>
           LET r == dl.responses[Len(dl.responses)]
           IN  /\ r.kind \in {"429", "timeout"}
               /\ (r.kind = "429" /\ r.header # "none") =>
                       dl.pending = HeaderSeconds(r.header) * 1000
               /\ (r.kind = "429" /\ r.header = "none") =>
                       dl.pending = Min((dl.attempt + 1) * 2000, 10000)
               /\ r.kind = "timeout" =>
                       /\ dl.attempt < 2
                       /\ dl.pending = (dl.attempt + 1) * 1000
    /\ (/\ dl.pc = "done"
        /\ Len(dl.responses) = 3
        /\ dl.responses[3].kind = "timeout") =>
           /\ dl.outcome = [type |-> "MediaDownloadError", message |-> "Request timeout"]
           /\ Len(dl.waits) = ThrottledBefore(dl.responses, 2)

C26_Witness ==
    /\ dl.pc = "done"
    /\ dl.waits = <<1000, 4000>>
    /\ dl.responses[3].kind = "timeout"

\* C27: an HTTP error status other than 429 ends the download with that
\* attempt, with a MediaDownloadError and without a wait.
C27_HttpErrorFailsAtOnce ==
    \A i \in 1..Len(dl.responses) :
        dl.responses[i].kind = "http" =>
            /\ i = Len(dl.responses)
            /\ dl.pc = "done"
            /\ dl.outcome = [type |-> "MediaDownloadError", message |-> "HTTP status"]
            /\ dl.pending = 0
            /\ Len(dl.waits) = ThrottledBefore(dl.responses, i - 1)

C27_Witness ==
    /\ dl.pc = "done"
    /\ Len(dl.responses) = 2
    /\ dl.responses[1].kind = "429"
    /\ dl.responses[2].kind = "http"
    /\ Len(dl.waits) = 1

\* ---------------------------------------------------------------- shutdown
\* C28: the process has exited only when no task is waiting or running.
C28_ExitAfterDrain ==
    life = "exited" => (queue = <<>> /\ running = {})

\* ------------------------------------------------------------ fixed window
\* C31: with calls made one after the other, a span shorter than windowMs holds
\* at most 2 * maxRequests admitted calls of an identity, and a span holding more
\* than maxRequests of them has a window opened inside it, after its first instant.
C31_FixedWindowBurst ==
    \A u \in Users : \A lo \in 0..MaxTime : \A hi \in lo..MaxTime :
        /\ (hi - lo < WindowMs) => AdmittedIn(u, lo, hi) <= 2 * MaxRequests
        /\ (AdmittedIn(u, lo, hi) > MaxRequests) =>
               \E t \in resets[u] : lo < t /\ t <= hi

\* C31 witness: a span shorter than windowMs holds more than maxRequests admitted
\* calls of an identity, the last of them at the instant a window was opened.
C31_Witness ==
    \E u \in Users : \E lo \in 0..MaxTime :
        /\ lo + WindowMs - 1 <= MaxTime
        /\ AdmittedIn(u, lo, lo + WindowMs - 1) > MaxRequests
        /\ lo + WindowMs - 1 \in resets[u]

\* ------------------------------------------------------ error text surfaced
\* C32: the result of a dispatch whose command failed with a MediaDownloadError
\* carries the generic user-facing text, not the message of the error.
C32_DownloadFailureIsGeneric ==
    \A p \in Procs :
        (/\ disp[p].at \in {"log", "returned"}
         /\ disp[p].error.type = "MediaDownloadError") =>
            /\ disp[p].result.error = "Failed to download media. Please try again."
            /\ disp[p].result.error # disp[p].error.message

RECURSIVE GoodItems(_)
GoodItems(items) ==
    IF items = <<>> THEN 0
    ELSE (IF Head(items) = "good" THEN 1 ELSE 0) + GoodItems(Tail(items))

C34_IncrementKeepsWindow ==
    [][\A p \in Procs :
          /\ (pc[p] = "ce_write" /\ pc'[p] = "ce_done" /\ call[p].next = "incr") =>
                 LET old == FindUnique(store, call[p].userId)
                     new == FindUnique(store', call[p].userId)
                 IN  /\ old = call[p].rateLimit
                     /\ old.count < MaxRequests
                     /\ new.count = old.count + 1
                     /\ new.resetAt = old.resetAt
                     /\ call'[p].result = "true"
          /\ (/\ pc[p] = "rem_read" /\ pc'[p] = "rem_done"
              /\ call[p].top = "getRemaining"
              /\ FindUnique(store, call[p].userId) # NoRecord
              /\ Live(FindUnique(store, call[p].userId), now)) =>
                 LET rec == FindUnique(store, call[p].userId)
                     k == AdmittedIn(call[p].userId, rec.resetAt - WindowMs, rec.resetAt)
                 IN  /\ k >= 1 /\ k <= MaxRequests
                     /\ rec.count = k
                     /\ call'[p].remaining = MaxRequests - k
                     /\ call'[p].resetAt = rec.resetAt]_vars

\* C34 witness: getRemainingRequests has answered for a live row that two admitted
\* calls of one window left at count 2.
C34_Witness ==
    \E p \in Procs :
        /\ pc[p] = "rem_done"
        /\ call[p].top = "getRemaining"
        /\ ~call[p].failed
        /\ \E r \in RowsOf(call[p].userId) :
              /\ Live(r, now)
              /\ r.count = 2
              /\ call[p].remaining = MaxRequests - 2
              /\ call[p].resetAt = r.resetAt
              /\ AdmittedIn(call[p].userId, r.resetAt - WindowMs, r.resetAt) = 2

\* --------------------------------------------------------- colliding creates
\* C35: when two overlapping calls of an identity both read no row, both return
\* true, the table holds at most one row of the identity and that row has count 1.
C35_CollidingCreateFailsOpen ==
    (\A p \in Procs : /\ pc[p] = "ce_done"
                      /\ call[p].userId = RaceUser
                      /\ call[p].next = "create") =>
        /\ \A p \in Procs : call[p].result = "true"
        /\ Cardinality(RowsOf(RaceUser)) <= 1
        /\ \A r \in RowsOf(RaceUser) : r.count = 1
        /\ \A p \in Procs : ~call[p].wrote => call[p].failed /\ call[p].logged

\* C35 witness: both calls read no row; one created the row, the create of the
\* other was refused and it was admitted by the catch block.
C35_Witness ==
    \E p \in Procs, q \in Procs :
        /\ p # q
        /\ pc[p] = "ce_done" /\ pc[q] = "ce_done"
        /\ call[p].next = "create" /\ call[q].next = "create"
        /\ call[p].wrote /\ ~call[p].failed
        /\ call[q].failed /\ ~call[q].wrote /\ call[q].result = "true"
        /\ RowsOf(RaceUser) = {[userId |-> RaceUser, count |-> 1,
                                resetAt |-> call[p].now + WindowMs]}

\* ------------------------------------------------------------------ ranges
\* C40: every stored row has count >= 1, and what getRemainingRequests answers
\* has remaining in 0..maxRequests, also when the store failed.
C40_CountAndRemainingRanges ==
    /\ \A r \in store : r.count >= 1
    /\ \A p \in Procs :
           pc[p] = "rem_done" => (call[p].remaining >= 0 /\ call[p].remaining <= MaxRequests)

\* C40 witness: one getRemainingRequests answered 0 for a live row at its quota,
\* another one met a store failure and answered the full quota.
C40_Witness ==
    /\ \E r \in store : Live(r, now) /\ r.count = MaxRequests
    /\ \E p \in Procs : pc[p] = "rem_done" /\ ~call[p].failed /\ call[p].remaining = 0
    /\ \E p \in Procs : pc[p] = "rem_done" /\ call[p].failed
                        /\ call[p].remaining = MaxRequests

\* -------------------------------------------------- downloadMedia terminates
\* C38: a download makes at most 3 attempts and at most 3 waits and ends; it
\* ends with a buffer only when the last attempt answered one with content, and
\* otherwise with a MediaDownloadError (a ValidationError only before any attempt).
C38_DownloadTerminates ==
    /\ [](/\ Len(dl.responses) <= 3
          /\ Len(dl.waits) <= 3
          /\ dl.pc = "done" =>
                \/ /\ dl.outcome.type = "Buffer"
                   /\ dl.responses # <<>>
                   /\ dl.responses[Len(dl.responses)].kind = "ok"
                \/ /\ dl.outcome.type = "MediaDownloadError"
                   /\ dl.responses # <<>>
                   /\ dl.responses[Len(dl.responses)].kind # "ok"
                \/ /\ dl.outcome.type = "ValidationError"
                   /\ dl.responses = <<>>)
    /\ (dl.pc \in {"request", "wait"}) ~> (dl.pc = "done")

\* C38 witness: three attempts answered 429 and three waits, then the failure.
C38_Witness ==
    /\ dl.pc = "done"
    /\ Len(dl.responses) = 3
    /\ Len(dl.waits) = 3
    /\ dl.outcome.type = "MediaDownloadError"

\* ------------------------------------------------------------ handleCommand
\* C36: a message has at most one usage record written for it, and the else
\* branch of the catch of handleCommand is never entered.
C36_GenericBranchNeverEntered ==
    \A p \in Procs :
        /\ disp[p].writes <= 1
        /\ hc[p].at # "generic"

\* C37: a message of a bot, one without the prefix and one with nothing after
\* the prefix make handleCommand return with the rateLimit table, the calls in
\* progress, the queue, the usage records and the dispatches as they were, and
\* without a reply.
C37_IgnoredMessageChangesNothing ==
    [][\A p \in Procs :
          (/\ hc[p].at = "idle"
           /\ hc'[p].at # "idle"
           /\ \/ hc'[p].msg.bot
              \/ ~hc'[p].msg.prefixed
              \/ hc'[p].msg.words = <<>>) =>
              /\ hc'[p].at = "done"
              /\ hc'[p].replies = 0
              /\ UNCHANGED <<store, pc, call, sweep, queueVars, disp, usage, dispatched>>]_vars

\* C37 witness: the message of a bot naming a registered command was ignored
\* while the identity has a command admitted and queued.
C37_Witness ==
    \E p \in Procs, q \in Procs :
        /\ hc[p].at = "done"
        /\ hc[p].msg = [bot |-> TRUE, prefixed |-> TRUE, words |-> <<"PFP">>]
        /\ disp[p].at = "idle"
        /\ disp[q].at = "queued"
        /\ usage = <<>>

====
